---------------------------- MODULE Spec2Model ----------------------------
(***************************************************************************)
(* A model of the confession bot of src/main.py: the submission flow (the  *)
(* per-user FSM of category selection and text submission), the moderator  *)
(* decision handlers (approve / reject) with the channel publication, and  *)
(* the reaction handler with its ledger ("aura") side effects.             *)
(*                                                                         *)
(* Storage is the PostgreSQL schema of setup_db: every SQL statement is    *)
(* one atomic step.  A handler that awaits between two statements is a     *)
(* task whose steps interleave with the steps of the other tasks.          *)
(***************************************************************************)
EXTENDS Integers, Sequences, FiniteSets, TLC

(***************************************************************************)
(* Program constants (MODULE 1 of src/main.py).                            *)
(***************************************************************************)
CATEGORIES ==
    << "Relationship", "Family", "School", "Friendship", "Religion", "Mental",
       "Addiction", "Harassment", "Crush", "Health", "Trauma", "Sexual Assault",
       "Other" >>
POINTS_PER_CONFESSION == 1
POINTS_PER_LIKE_RECEIVED == 3
POINTS_PER_DISLIKE_RECEIVED == -3
MAX_CATEGORIES == 3
PAGE_SIZE == 15
BANNED_WORDS ==
    { <<"s","c","a","m">>, <<"n","u","d","e">>, <<"h","a","c","k">>,
      <<"t",".","m","e","/">>,
      <<"t","e","l","e","g","r","a","m",".","m","e">> }
MIN_TEXT_LEN == 10
ADMIN_ID == 1
\* The creator, who alone may change the moderator list; the list as configured at
\* startup holds the creator only.
PRIMARY_ADMIN == ADMIN_ID
ConfiguredAdmins == << PRIMARY_ADMIN >>

(***************************************************************************)
(* Bounds of the model.                                                    *)
(***************************************************************************)
NumUsers == 2          \* user ids 1..NumUsers; user 1 is ADMIN_ID
NumComments == 1       \* comments under the published confession of the reaction runs
MaxConfessions == 1    \* rows the confessions table may hold
MaxPresses == 2        \* button presses (approve / reject / reaction) handled in one run
MaxCalls == 3          \* reactions handled in one run when they come one after the other
MaxFlowStarts == 1     \* /confess commands handled in one run
MaxRefusals == 1       \* texts refused by the submission handler in one run
MaxReplies == 1        \* replies posted in one run
MaxWarns == 1          \* warnings a user receives in one run
MaxTicks == 2           \* steps of the clock in one run

Users == 1..NumUsers
Cats == { CATEGORIES[i] : i \in 1..(MAX_CATEGORIES + 1) }
ConfIds == 1..MaxConfessions
NULL == 0              \* SQL NULL / Python None for an integer column or id

VARIABLES
    confessions,       \* table confessions: sequence of rows, id = index (SERIAL)
    column_reason,     \* whether table confessions has a rejection_reason column
    comments,          \* table comments: set of rows
    reactions,         \* table reactions: set of rows
    user_points,       \* table user_points: function user_id -> points, on the rows that exist
    user_status,       \* table user_status: function user_id -> row, on the rows that exist
    fsm,               \* MemoryStorage: per user [state, data]
    tasks,             \* handlers suspended between two awaits
    presses,           \* number of button presses handled so far
    starts,            \* number of /confess commands handled so far
    admin_kb,          \* per confession: the admin's message still shows Approve/Reject
    posts,             \* per confession: posts emitted to the channel
    notes,             \* per confession: decision notifications sent to the author
    credits,           \* per confession: times the publication credit statement ran
    next_msg,          \* next message id the channel hands out
    ADMIN_IDS,         \* the in-memory list of moderators
    authorized_admins, \* table authorized_admins: set of user ids
    told,              \* per confession: the author was told it went to the moderation team
    attempts,          \* per confession: users a moderation notification was attempted to
    shown,             \* what the last call of show_comments_for_confession sent
    refusals,          \* number of texts handle_confession_submission answered with a refusal
    comments_id_seq,   \* the last id the SERIAL column comments.id handed out
    clock,             \* the time datetime.now() reads, in days
    broadcast          \* what the last run of the broadcast loop did and reported

vars == << confessions, column_reason, comments, reactions, user_points, user_status,
           fsm, tasks, presses, starts, admin_kb, posts, notes, credits, next_msg,
           ADMIN_IDS, authorized_admins, told, attempts, shown,
           refusals, comments_id_seq, clock, broadcast >>

(***************************************************************************)
(* Text of a message: a tuple of characters; <<>> stands for a message     *)
(* without text (message.text is None).                                    *)
(***************************************************************************)
NoText == << >>
TextShort == <<"m","y"," ","s","e","c","r","e","t">>
TextTen == <<"m","y"," ","s","e","c","r","e","t","s">>
TextBanned == <<"a"," ","S","c","A","m"," ","s","t","o","r","y">>
TextCancel == <<"/","c","a","n","c","e","l">>
SampleTexts == { NoText, TextShort, TextTen, TextBanned, TextCancel }

\* str.lower() on the characters the sample texts use
LowerChar(ch) ==
    CASE ch = "S" -> "s"
      [] ch = "A" -> "a"
      [] OTHER -> ch

Lower(text) == [ i \in 1..Len(text) |-> LowerChar(text[i]) ]

\* Python's  word in text  on strings: word is a contiguous substring of text
Contains(text, word) ==
    \E i \in 1..(Len(text) - Len(word) + 1) :
        SubSeq(text, i, i + Len(word) - 1) = word

TextTooShort(text) == text = NoText \/ Len(text) < MIN_TEXT_LEN

\* (a word filter that compares without lowering the text)
ProhibitedContentCaseSensitive(text) ==
    LET text_low == text
    IN  \E word \in BANNED_WORDS : Contains(text_low, word)

\* text_low = message.text.lower(); any(word in text_low for word in BANNED_WORDS)
ProhibitedContent(text) ==
    LET text_low == Lower(text)
    IN  \E word \in BANNED_WORDS : Contains(text_low, word)

\* the two early returns of handle_confession_submission
Refused(text) == TextTooShort(text) \/ ProhibitedContent(text)

(***************************************************************************)
(* FSM storage (aiogram MemoryStorage): state name and a data dictionary.  *)
(***************************************************************************)
NoData == << >>
FsmIdle == [ state |-> "none", data |-> NoData ]

\* dict.get(key, default)
DataGet(data, key, default) == IF key \in DOMAIN data THEN data[key] ELSE default

\* state.update_data(key=value)
UpdateData(data, key, value) == (key :> value) @@ data

\* list.remove(x): drops the first occurrence of x
ListRemove(list, x) ==
    LET i == CHOOSE k \in 1..Len(list) :
                 list[k] = x /\ \A j \in 1..(k - 1) : list[j] # x
    IN  SubSeq(list, 1, i - 1) \o SubSeq(list, i + 1, Len(list))

ListHas(list, x) == \E k \in 1..Len(list) : list[k] = x

\* callback_data of a category button, as cb.data.split("_") sees it
SelCatData(cat) == << "sel", "cat", cat >>


(***************************************************************************)
(* MODULE 9: rules acceptance and /start.                                  *)
(***************************************************************************)
NewStatusRow ==
    [ has_accepted_rules |-> FALSE, is_blocked |-> FALSE, blocked_until |-> NULL ]

\* INSERT INTO user_status ... ON CONFLICT (user_id) DO UPDATE SET has_accepted_rules = True
handle_rules_acceptance(u) ==
    /\ user_status' =
          IF u \in DOMAIN user_status
          THEN [ user_status EXCEPT ![u].has_accepted_rules = TRUE ]
          ELSE (u :> [ NewStatusRow EXCEPT !.has_accepted_rules = TRUE ]) @@ user_status
    /\ UNCHANGED << confessions, column_reason, comments, reactions,
                    user_points, fsm, tasks, presses, starts, admin_kb,
                    posts, notes, credits, next_msg, ADMIN_IDS,
                    authorized_admins, told, attempts, shown,
                    refusals, comments_id_seq, clock, broadcast >>

\* INSERT INTO user_points (user_id, points) VALUES ($1, 0) ON CONFLICT DO NOTHING
cmd_start(u) ==
    /\ user_points' = IF u \in DOMAIN user_points
                      THEN user_points
                      ELSE (u :> 0) @@ user_points
    /\ UNCHANGED << confessions, column_reason, comments, reactions,
                    user_status, fsm, tasks, presses, starts, admin_kb,
                    posts, notes, credits, next_msg, ADMIN_IDS,
                    authorized_admins, told, attempts, shown,
                    refusals, comments_id_seq, clock, broadcast >>

(***************************************************************************)
(* MODULE 5: the submission flow.                                          *)
(***************************************************************************)
HasAcceptedRules(u) == u \in DOMAIN user_status /\ user_status[u].has_accepted_rules

start_confess(u) ==
    /\ starts' = starts + 1
    /\ IF ~HasAcceptedRules(u)
       THEN UNCHANGED fsm
       ELSE fsm' = [ fsm EXCEPT ![u] =
                       [ state |-> "selecting_categories",
                         data |-> UpdateData(@.data, "chosen_cats", << >>) ] ]
    /\ UNCHANGED << confessions, column_reason, comments, reactions,
                    user_points, user_status, tasks, presses, admin_kb,
                    posts, notes, credits, next_msg, ADMIN_IDS,
                    authorized_admins, told, attempts, shown,
                    refusals, comments_id_seq, clock, broadcast >>

\* (a limit test that is off by one)
CanAddOffByOne(chosen) == Len(chosen) <= MAX_CATEGORIES

\* elif len(chosen) < MAX_CATEGORIES
CanAdd(chosen) == Len(chosen) < MAX_CATEGORIES

\* The third branch: "You can only choose up to 3 categories!" and return
LimitExceeded(chosen, category) == ~ListHas(chosen, category) /\ ~CanAdd(chosen)

\* chosen.remove(category) or chosen.append(category)
ToggledCats(chosen, category) ==
    IF ListHas(chosen, category)
    THEN ListRemove(chosen, category)
    ELSE Append(chosen, category)

process_category_toggle(u, cat) ==
    /\ fsm[u].state = "selecting_categories"
    /\ LET chosen == DataGet(fsm[u].data, "chosen_cats", << >>)
           category == SelCatData(cat)[3]
       IN  IF LimitExceeded(chosen, category)
           THEN UNCHANGED fsm
           ELSE fsm' = [ fsm EXCEPT ![u].data =
                           UpdateData(@, "chosen_cats", ToggledCats(chosen, category)) ]
    /\ UNCHANGED << confessions, column_reason, comments, reactions,
                    user_points, user_status, tasks, presses, starts,
                    admin_kb, posts, notes, credits, next_msg, ADMIN_IDS,
                    authorized_admins, told, attempts, shown,
                    refusals, comments_id_seq, clock, broadcast >>

\* (Done accepted without looking at the selection)
CatsChosenUnchecked(data) == TRUE

\* if not data.get("chosen_cats"): an absent key and an empty list both refuse
CatsChosen(data) == DataGet(data, "chosen_cats", << >>) # << >>

categories_done(u) ==
    /\ fsm[u].state = "selecting_categories"
    /\ IF ~CatsChosen(fsm[u].data)
       THEN UNCHANGED fsm
       ELSE fsm' = [ fsm EXCEPT ![u].state = "waiting_for_text" ]
    /\ UNCHANGED << confessions, column_reason, comments, reactions,
                    user_points, user_status, tasks, presses, starts,
                    admin_kb, posts, notes, credits, next_msg, ADMIN_IDS,
                    authorized_admins, told, attempts, shown,
                    refusals, comments_id_seq, clock, broadcast >>

NewConfession(text, u, cats) ==
    [ text |-> text, user_id |-> u, status |-> "pending", message_id |-> NULL,
      categories |-> cats, rejection_reason |-> NoText ]

\* answered: message.answer("... It has been sent to the moderation team ...") reached
\* the author; delivered: the message with the Approve / Reject buttons reached
\* ADMIN_ID.  A failed send raises and ends the handler, so the one
\* bot.send_message(ADMIN_ID, ...) is attempted only after the answer went through.
handle_confession_submission(u, text, answered, delivered) ==
    /\ fsm[u].state = "waiting_for_text"
    /\ IF Refused(text)
       THEN /\ refusals' = refusals + 1
            /\ UNCHANGED << confessions, fsm, admin_kb, told, attempts >>
       ELSE /\ Len(confessions) < MaxConfessions
            /\ UNCHANGED refusals
            /\ LET cats == DataGet(fsm[u].data, "chosen_cats", << >>)
                   conf_id == Len(confessions) + 1
               IN  /\ confessions' = Append(confessions, NewConfession(text, u, cats))
                   /\ told' = [ told EXCEPT ![conf_id] = answered ]
                   /\ attempts' = [ attempts EXCEPT ![conf_id] =
                                       IF answered THEN { ADMIN_ID } ELSE {} ]
                   /\ admin_kb' = [ admin_kb EXCEPT ![conf_id] = answered /\ delivered ]
            /\ fsm' = [ fsm EXCEPT ![u] = FsmIdle ]
    /\ UNCHANGED << column_reason, comments, reactions, user_points, user_status, tasks,
                    presses, starts, posts, notes, credits, next_msg, ADMIN_IDS,
                    authorized_admins, shown, comments_id_seq, clock, broadcast >>

\* The dispatcher hands a message to the first registered handler whose filter
\* passes, and a state handler takes every message of a user in its state: the line
\* at which the handler of a state is registered (NULL for a state without one).
StateHandlerLine(state) ==
    CASE state = "waiting_for_text" -> 235
      [] state = "waiting_for_rejection_reason" -> 502
      [] state = "waiting_for_reply" -> 629
      [] state = "waiting_for_broadcast_message" -> 680
      [] OTHER -> NULL

\* a command whose handler is registered at line reaches it from state
CommandReaches(state, line) ==
    StateHandlerLine(state) = NULL \/ line < StateHandlerLine(state)

\* /cancel, when it reaches cmd_cancel
cmd_cancel(u) ==
    /\ CommandReaches(fsm[u].state, 726)
    /\ fsm' = [ fsm EXCEPT ![u] = FsmIdle ]
    /\ UNCHANGED << confessions, column_reason, comments, reactions, user_points,
                    user_status, tasks, presses, starts, admin_kb, posts, notes,
                    credits, next_msg, ADMIN_IDS, authorized_admins, told, attempts,
                    shown, refusals, comments_id_seq, clock, broadcast >>

(***************************************************************************)
(* MODULE 7: moderator decisions.                                          *)
(***************************************************************************)
\* UPDATE user_points SET points = points + delta WHERE user_id = u:
\* it changes the row of u if there is one, and nothing otherwise.
AddPoints(points, u, delta) ==
    IF u \in DOMAIN points
    THEN [ points EXCEPT ![u] = @ + delta ]
    ELSE points

TasksOf(kind) == { t \in tasks : t.kind = kind }

\* no handler is suspended between two of its awaits
Quiescent == tasks = {}

\* adm_approve_<id> pressed by caller: the guard of line 455, then
\* UPDATE confessions SET status = 'approved' WHERE id = $1 RETURNING ...
\* The button can be pressed while the admin's message still shows it (admin_kb).
approve_submission(caller, conf_id) ==
    /\ conf_id \in ConfIds
    /\ admin_kb[conf_id]
    /\ presses' = presses + 1
    /\ IF caller # ADMIN_ID \/ conf_id \notin DOMAIN confessions
       THEN UNCHANGED << confessions, tasks >>
       ELSE /\ confessions' = [ confessions EXCEPT ![conf_id].status = "approved" ]
            /\ tasks' = tasks \cup
                 { [ id |-> presses + 1, kind |-> "approve", pc |-> "post",
                     conf_id |-> conf_id, user_id |-> confessions[conf_id].user_id,
                     message_id |-> NULL ] }
    /\ UNCHANGED << column_reason, comments, reactions, user_points,
                    user_status, fsm, starts, admin_kb, posts, notes,
                    credits, next_msg, ADMIN_IDS, authorized_admins,
                    told, attempts, shown,
                    refusals, comments_id_seq, clock, broadcast >>

\* bot.send_message(CHANNEL_ID, ...): sent, or the transport raises and the handler ends
approve_post(t, sent) ==
    /\ t \in TasksOf("approve") /\ t.pc = "post"
    /\ IF sent
       THEN /\ posts' = [ posts EXCEPT ![t.conf_id] = @ + 1 ]
            /\ next_msg' = next_msg + 1
            /\ tasks' = (tasks \ {t}) \cup
                 { [ t EXCEPT !.pc = "save", !.message_id = next_msg ] }
       ELSE /\ tasks' = tasks \ {t}
            /\ UNCHANGED << posts, next_msg >>
    /\ UNCHANGED << confessions, column_reason, comments, reactions,
                    user_points, user_status, fsm, presses, starts,
                    admin_kb, notes, credits, ADMIN_IDS,
                    authorized_admins, told, attempts, shown,
                    refusals, comments_id_seq, clock, broadcast >>

\* UPDATE confessions SET message_id = $1 WHERE id = $2
approve_save(t) ==
    /\ t \in TasksOf("approve") /\ t.pc = "save"
    /\ confessions' = [ confessions EXCEPT ![t.conf_id].message_id = t.message_id ]
    /\ tasks' = (tasks \ {t}) \cup { [ t EXCEPT !.pc = "credit" ] }
    /\ UNCHANGED << column_reason, comments, reactions, user_points,
                    user_status, fsm, presses, starts, admin_kb, posts,
                    notes, credits, next_msg, ADMIN_IDS,
                    authorized_admins, told, attempts, shown,
                    refusals, comments_id_seq, clock, broadcast >>

\* UPDATE user_points SET points = points + $1 WHERE user_id = $2
approve_credit(t) ==
    /\ t \in TasksOf("approve") /\ t.pc = "credit"
    /\ user_points' = AddPoints(user_points, t.user_id, POINTS_PER_CONFESSION)
    /\ credits' = [ credits EXCEPT ![t.conf_id] = @ + 1 ]
    /\ tasks' = (tasks \ {t}) \cup { [ t EXCEPT !.pc = "edit" ] }
    /\ UNCHANGED << confessions, column_reason, comments, reactions,
                    user_status, fsm, presses, starts, admin_kb, posts,
                    notes, next_msg, ADMIN_IDS, authorized_admins, told,
                    attempts, shown,
                    refusals, comments_id_seq, clock, broadcast >>

\* cb.message.edit_text("Approved ..."): the edit replaces the message and drops its
\* keyboard.  Editing a message that already shows this text is refused by the
\* transport ("message is not modified"); any edit may fail.  A failure raises.
approve_edit(t, edited) ==
    /\ t \in TasksOf("approve") /\ t.pc = "edit"
    /\ IF edited /\ admin_kb[t.conf_id]
       THEN /\ admin_kb' = [ admin_kb EXCEPT ![t.conf_id] = FALSE ]
            /\ tasks' = (tasks \ {t}) \cup { [ t EXCEPT !.pc = "notify" ] }
       ELSE /\ tasks' = tasks \ {t}
            /\ UNCHANGED admin_kb
    /\ UNCHANGED << confessions, column_reason, comments, reactions,
                    user_points, user_status, fsm, presses, starts,
                    posts, notes, credits, next_msg, ADMIN_IDS,
                    authorized_admins, told, attempts, shown,
                    refusals, comments_id_seq, clock, broadcast >>

\* the decision notification to the author
safe_send_message(conf_id) ==
    notes' = [ notes EXCEPT ![conf_id] = @ + 1 ]

approve_notify(t) ==
    /\ t \in TasksOf("approve") /\ t.pc = "notify"
    /\ safe_send_message(t.conf_id)
    /\ tasks' = tasks \ {t}
    /\ UNCHANGED << confessions, column_reason, comments, reactions,
                    user_points, user_status, fsm, presses, starts,
                    admin_kb, posts, credits, next_msg, ADMIN_IDS,
                    authorized_admins, told, attempts, shown,
                    refusals, comments_id_seq, clock, broadcast >>

\* adm_reject_<id> pressed by caller
reject_submission(caller, conf_id) ==
    /\ conf_id \in ConfIds
    /\ admin_kb[conf_id]
    /\ presses' = presses + 1
    /\ IF caller # ADMIN_ID
       THEN UNCHANGED fsm
       ELSE fsm' = [ fsm EXCEPT ![caller] =
                       [ state |-> "waiting_for_rejection_reason",
                         data |-> UpdateData(@.data, "reject_id", conf_id) ] ]
    /\ UNCHANGED << confessions, column_reason, comments, reactions,
                    user_points, user_status, tasks, starts, admin_kb,
                    posts, notes, credits, next_msg, ADMIN_IDS,
                    authorized_admins, told, attempts, shown,
                    refusals, comments_id_seq, clock, broadcast >>

\* The next message of the admin is the reason.  The UPDATE names the column
\* rejection_reason: on a table without it the statement raises and the handler ends
\* before state.clear().  answered: message.answer(...) did not raise.
process_rejection(caller, text, answered) ==
    /\ fsm[caller].state = "waiting_for_rejection_reason"
    /\ IF caller # ADMIN_ID \/ ~column_reason
       THEN UNCHANGED << confessions, fsm, notes >>
       ELSE LET conf_id == fsm[caller].data["reject_id"]
                found == conf_id \in DOMAIN confessions
            IN  /\ confessions' =
                      IF found
                      THEN [ confessions EXCEPT ![conf_id].status = "rejected",
                                                ![conf_id].rejection_reason = text ]
                      ELSE confessions
                /\ fsm' = [ fsm EXCEPT ![caller] = FsmIdle ]
                /\ IF answered /\ found
                   THEN safe_send_message(conf_id)
                   ELSE UNCHANGED notes
    /\ UNCHANGED << column_reason, comments, reactions, user_points,
                    user_status, tasks, presses, starts, admin_kb, posts,
                    credits, next_msg, ADMIN_IDS, authorized_admins,
                    told, attempts, shown,
                    refusals, comments_id_seq, clock, broadcast >>

(***************************************************************************)
(* MODULE 8: reactions.                                                    *)
(***************************************************************************)
\* callback_data of the two reaction buttons, as cb.data.split("_") sees it
ReactData(kind, c_id) == << "re", IF kind = "like" THEN "like" ELSE "dis", c_id >>

\* r_type = "like" if r_type == "like" else "dislike"
ReactionType(tag) == IF tag = "like" THEN "like" ELSE "dislike"

\* points_to_add = POINTS_PER_LIKE_RECEIVED if r_type == "like" else POINTS_PER_DISLIKE_RECEIVED
PointsToAdd(r_type) ==
    IF r_type = "like" THEN POINTS_PER_LIKE_RECEIVED ELSE POINTS_PER_DISLIKE_RECEIVED

RowsOf(rs, c_id, uid) == { r \in rs : r.comment_id = c_id /\ r.user_id = uid }

\* SELECT reaction_type FROM reactions WHERE comment_id = $1 AND user_id = $2
\* (fetchval: the first row's value, None without a row)
SelectReaction(rs, c_id, uid) ==
    IF RowsOf(rs, c_id, uid) = {}
    THEN "none"
    ELSE (CHOOSE r \in RowsOf(rs, c_id, uid) : TRUE).reaction_type

\* SELECT user_id FROM comments WHERE id = $1
SelectCommenter(cs, c_id) ==
    IF \E c \in cs : c.id = c_id
    THEN (CHOOSE c \in cs : c.id = c_id).user_id
    ELSE NULL

\* DELETE FROM reactions WHERE comment_id = $1 AND user_id = $2
DeleteReaction(rs, c_id, uid) == rs \ RowsOf(rs, c_id, uid)

\* (an insert without the ON CONFLICT clause on a table without the UNIQUE constraint)
UpsertReactionPlainInsert(rs, row_id, c_id, uid, r_type) ==
    rs \cup { [ id |-> row_id, comment_id |-> c_id, user_id |-> uid,
                reaction_type |-> r_type ] }

\* INSERT INTO reactions ... ON CONFLICT (comment_id, user_id) DO UPDATE SET reaction_type = $3
\* row_id is the SERIAL id a new row gets; a conflicting row keeps its own.
UpsertReaction(rs, row_id, c_id, uid, r_type) ==
    IF RowsOf(rs, c_id, uid) = {}
    THEN rs \cup { [ id |-> row_id, comment_id |-> c_id, user_id |-> uid,
                     reaction_type |-> r_type ] }
    ELSE { IF r \in RowsOf(rs, c_id, uid) THEN [ r EXCEPT !.reaction_type = r_type ] ELSE r :
           r \in rs }

\* the foreign key reactions.comment_id -> comments(id) refuses the insert
ForeignKeyOk(cs, c_id) == \E c \in cs : c.id = c_id

\* the INSERT of the else branch raises when the foreign key refuses it
ReactionRaises(cs, c_id, r_type, existing) ==
    existing # r_type /\ ~ForeignKeyOk(cs, c_id)

\* lines 581-593, the statement on table reactions
ReactionWrite(rs, cs, row_id, c_id, uid, r_type, existing) ==
    IF existing = r_type
    THEN DeleteReaction(rs, c_id, uid)
    ELSE IF ForeignKeyOk(cs, c_id)
         THEN UpsertReaction(rs, row_id, c_id, uid, r_type)
         ELSE rs

\* (a toggle-off that forgets to take the delta back)
ReactionPointsNoReverse(points, commenter_id, r_type, existing) ==
    IF existing = r_type
    THEN points
    ELSE AddPoints(points, commenter_id, PointsToAdd(r_type))

\* lines 581-593, the statement on table user_points
ReactionPoints(points, commenter_id, r_type, existing) ==
    IF existing = r_type
    THEN AddPoints(points, commenter_id, 0 - PointsToAdd(r_type))
    ELSE AddPoints(points, commenter_id, PointsToAdd(r_type))

\* The handler run from its first statement to its last with no other handler in
\* between, on the tables db = [reactions, user_points] and the comments cs.
ReactRun(db, cs, row_id, uid, kind, c_id) ==
    LET data == ReactData(kind, c_id)
        r_type == ReactionType(data[2])
        existing == SelectReaction(db.reactions, data[3], uid)
        commenter_id == SelectCommenter(cs, data[3])
    IN  [ reactions |->
              ReactionWrite(db.reactions, cs, row_id, data[3], uid, r_type, existing),
          user_points |->
              IF ReactionRaises(cs, data[3], r_type, existing)
              THEN db.user_points
              ELSE ReactionPoints(db.user_points, commenter_id, r_type, existing) ]

\* re_<kind>_<id> pressed by uid: the first SELECT
handle_reactions(uid, kind, c_id) ==
    /\ presses' = presses + 1
    /\ LET data == ReactData(kind, c_id)
       IN  tasks' = tasks \cup
             { [ id |-> presses + 1, kind |-> "react", pc |-> "commenter",
                 c_id |-> data[3], uid |-> uid, r_type |-> ReactionType(data[2]),
                 existing |-> SelectReaction(reactions, data[3], uid),
                 commenter_id |-> NULL ] }
    /\ UNCHANGED << confessions, column_reason, comments, reactions,
                    user_points, user_status, fsm, starts, admin_kb,
                    posts, notes, credits, next_msg, ADMIN_IDS,
                    authorized_admins, told, attempts, shown,
                    refusals, comments_id_seq, clock, broadcast >>

react_commenter(t) ==
    /\ t \in TasksOf("react") /\ t.pc = "commenter"
    /\ tasks' = (tasks \ {t}) \cup
         { [ t EXCEPT !.pc = "write", !.commenter_id = SelectCommenter(comments, t.c_id) ] }
    /\ UNCHANGED << confessions, column_reason, comments, reactions,
                    user_points, user_status, fsm, presses, starts,
                    admin_kb, posts, notes, credits, next_msg, ADMIN_IDS,
                    authorized_admins, told, attempts, shown,
                    refusals, comments_id_seq, clock, broadcast >>

\* the DELETE or the INSERT .. ON CONFLICT; an insert the foreign key refuses raises
react_write(t) ==
    /\ t \in TasksOf("react") /\ t.pc = "write"
    /\ reactions' = ReactionWrite(reactions, comments, t.id, t.c_id, t.uid, t.r_type,
                                  t.existing)
    /\ tasks' = IF ReactionRaises(comments, t.c_id, t.r_type, t.existing)
                THEN tasks \ {t}
                ELSE (tasks \ {t}) \cup { [ t EXCEPT !.pc = "points" ] }
    /\ UNCHANGED << confessions, column_reason, comments, user_points,
                    user_status, fsm, presses, starts, admin_kb, posts,
                    notes, credits, next_msg, ADMIN_IDS,
                    authorized_admins, told, attempts, shown,
                    refusals, comments_id_seq, clock, broadcast >>

react_points(t) ==
    /\ t \in TasksOf("react") /\ t.pc = "points"
    /\ user_points' = ReactionPoints(user_points, t.commenter_id, t.r_type, t.existing)
    /\ tasks' = tasks \ {t}
    /\ UNCHANGED << confessions, column_reason, comments, reactions,
                    user_status, fsm, presses, starts, admin_kb, posts,
                    notes, credits, next_msg, ADMIN_IDS,
                    authorized_admins, told, attempts, shown,
                    refusals, comments_id_seq, clock, broadcast >>

(***************************************************************************)
(* MODULE 8: replies.                                                      *)
(***************************************************************************)
\* SELECT confession_id FROM comments WHERE id = $1 (fetchval: None without a row)
SelectConfessionOf(cs, c_id) ==
    IF \E c \in cs : c.id = c_id
    THEN (CHOOSE c \in cs : c.id = c_id).confession_id
    ELSE NULL

\* com_reply_<c_id> pressed by u
start_reply(u, c_id) ==
    /\ fsm' = [ fsm EXCEPT ![u] =
                  [ state |-> "waiting_for_reply",
                    data |-> UpdateData(@.data, "reply_to_cid", c_id) ] ]
    /\ UNCHANGED << confessions, column_reason, comments, reactions, user_points,
                    user_status, tasks, presses, starts, admin_kb, posts, notes,
                    credits, next_msg, ADMIN_IDS, authorized_admins, told, attempts,
                    shown, refusals, comments_id_seq, clock, broadcast >>

\* The next message of u is the reply, whatever it is: INSERT INTO comments
\* (confession_id, user_id, text, parent_comment_id) with message.text
process_reply(u, text) ==
    /\ fsm[u].state = "waiting_for_reply"
    /\ LET parent_cid == fsm[u].data["reply_to_cid"]
           conf_id == SelectConfessionOf(comments, parent_cid)
       IN  comments' = comments \cup
             { [ id |-> comments_id_seq + 1, confession_id |-> conf_id, user_id |-> u,
                 text |-> text, parent_comment_id |-> parent_cid ] }
    /\ comments_id_seq' = comments_id_seq + 1
    /\ fsm' = [ fsm EXCEPT ![u] = FsmIdle ]
    /\ UNCHANGED << confessions, column_reason, reactions, user_points, user_status,
                    tasks, presses, starts, admin_kb, posts, notes, credits, next_msg,
                    ADMIN_IDS, authorized_admins, told, attempts, shown, refusals, clock,
                    broadcast >>

(***************************************************************************)
(* MODULE 2 and MODULE 6: reputation titles and the comment pages.         *)
(***************************************************************************)
get_reputation_title(points) ==
    IF points >= 500 THEN "Legend"
    ELSE IF points >= 201 THEN "Wise Elder"
    ELSE IF points >= 51 THEN "Truth Teller"
    ELSE IF points >= 0 THEN "Newbie"
    ELSE "Troublemaker"

\* html.quote on one character
HtmlQuoteChar(ch) ==
    CASE ch = "&" -> "&amp;"
      [] ch = "<" -> "&lt;"
      [] ch = ">" -> "&gt;"
      [] OTHER -> ch

HtmlQuote(text) == [ i \in 1..Len(text) |-> HtmlQuoteChar(text[i]) ]

\* WHERE c.confession_id = $1
CommentsOf(cs, confession_id) == { c \in cs : c.confession_id = confession_id }

\* ORDER BY c.created_at ASC: created_at is the time of the INSERT, which grows with
\* the SERIAL id
RECURSIVE OrderByCreated(_)
OrderByCreated(cs) ==
    IF cs = {}
    THEN << >>
    ELSE LET first == CHOOSE c \in cs : \A d \in cs : c.id <= d.id
         IN  << first >> \o OrderByCreated(cs \ { first })

\* LIMIT $2 OFFSET $3 on the ordered rows
LimitOffset(rows, limit, offset) ==
    IF offset >= Len(rows)
    THEN << >>
    ELSE SubSeq(rows, offset + 1,
                IF offset + limit < Len(rows) THEN offset + limit ELSE Len(rows))

\* COALESCE(up.points, 0) of the LEFT JOIN with user_points
Pts(points, u) == IF u \in DOMAIN points THEN points[u] ELSE 0

\* the tag that identifies the commenter to the viewer
CommentTag(commenter_uid, owner_id, user_id) ==
    IF commenter_uid = owner_id THEN "Author"
    ELSE IF commenter_uid = user_id THEN "You"
    ELSE "Anonymous"

\* the callback data of the buttons under a comment
build_comment_keyboard(comment_id, commenter_uid, viewer_uid, owner_uid) ==
    { << "re", "like", comment_id >>, << "re", "dis", comment_id >>,
      << "com", "reply", comment_id >> }
      \cup (IF viewer_uid = owner_uid /\ viewer_uid # commenter_uid
            THEN { << "contact", "req", comment_id >> }
            ELSE {})
      \cup (IF viewer_uid = ADMIN_ID
            THEN { << "adm", "del", "com", comment_id >> }
            ELSE {})

\* the message sent for comment row c, the i-th of the page (i counts from 0):
\* its text, and the meta line  #seq tag | pts title [| ID: uid]
RenderComment(c, i, offset, user_id, owner_id) ==
    [ text |-> HtmlQuote(c.text),
      seq |-> offset + i + 1,
      tag |-> CommentTag(c.user_id, owner_id, user_id),
      pts |-> Pts(user_points, c.user_id),
      title |-> get_reputation_title(Pts(user_points, c.user_id)),
      admin_info |-> IF user_id = ADMIN_ID THEN c.user_id ELSE NULL,
      kb |-> build_comment_keyboard(c.id, c.user_id, user_id, owner_id) ]

\* if c['text']: a row without text (and without a sticker, which no handler of
\* src/ stores) sends nothing
IsSent(item) == item.text # NoText

\* (a status test that lets every existing submission through)
AvailableAnyStatus(confession_id) == confession_id \in DOMAIN confessions

\* if not conf or conf['status'] != 'approved', negated
Available(confession_id) ==
    /\ confession_id \in DOMAIN confessions
    /\ confessions[confession_id].status = "approved"

\* What show_comments_for_confession hands to the transport for the viewer user_id.
ShowComments(user_id, confession_id, page) ==
    IF ~Available(confession_id)
    THEN [ kind |-> "unavailable", user_id |-> user_id,
           confession_id |-> confession_id, page |-> page ]
    ELSE LET owner_id == confessions[confession_id].user_id
             offset == (page - 1) * PAGE_SIZE
             all == OrderByCreated(CommentsOf(comments, confession_id))
             rows == LimitOffset(all, PAGE_SIZE, offset)
         IN  IF rows = << >> /\ page = 1
             THEN [ kind |-> "empty", user_id |-> user_id,
                    confession_id |-> confession_id, page |-> page ]
             ELSE [ kind |-> "page", user_id |-> user_id,
                    confession_id |-> confession_id, page |-> page,
                    items |-> SelectSeq(
                        [ i \in 1..Len(rows) |->
                            RenderComment(rows[i], i - 1, offset, user_id, owner_id) ],
                        IsSent),
                    more |-> Len(all) > offset + PAGE_SIZE ]

\* /start view_<conf_id> sent by u: the ledger row of cmd_start, then page 1
cmd_start_view(u, conf_id) ==
    /\ CommandReaches(fsm[u].state, 797)
    /\ user_points' = IF u \in DOMAIN user_points
                      THEN user_points
                      ELSE (u :> 0) @@ user_points
    /\ shown' = ShowComments(u, conf_id, 1)
    /\ UNCHANGED << confessions, column_reason, comments, reactions, user_status, fsm,
                    tasks, presses, starts, admin_kb, posts, notes, credits, next_msg,
                    ADMIN_IDS, authorized_admins, told, attempts, refusals,
                    comments_id_seq, clock, broadcast >>

\* callback data of the Load More button, as cb.data.split("_") sees it
PageData(confession_id, next_page) == << "page", confession_id, next_page >>

\* Load More pressed by u under the last page shown to u
handle_pagination(u) ==
    /\ shown.kind = "page" /\ shown.more /\ shown.user_id = u
    /\ LET data == PageData(shown.confession_id, shown.page + 1)
       IN  shown' = ShowComments(u, data[2], data[3])
    /\ UNCHANGED << confessions, column_reason, comments, reactions, user_points,
                    user_status, fsm, tasks, presses, starts, admin_kb, posts, notes,
                    credits, next_msg, ADMIN_IDS, authorized_admins, told, attempts,
                    refusals, comments_id_seq, clock, broadcast >>

(***************************************************************************)
(* MODULE 7.5: warnings and blocks; MODULE 8: deleting a comment;          *)
(* MODULE 8.5: the broadcast.                                              *)
(***************************************************************************)
\* command.args is None: the command came without an argument
NoArg == NULL

WARN_PENALTY == 50
DELETE_PENALTY == 20
\* datetime.now()
Now == clock

\* (a guard that lets everyone through)
MayModerateAnyone(caller) == TRUE

\* the guard of lines 388, 407, 431, 443 and 669, negated: in a private chat
\* message.chat.id is message.from_user.id
MayModerate(caller) == caller = ADMIN_ID \/ ListHas(ADMIN_IDS, caller)

\* /warn <target_id> sent by caller
cmd_warn(caller, target_id) ==
    /\ CommandReaches(fsm[caller].state, 386)
    /\ IF ~MayModerate(caller) \/ target_id = NoArg
       THEN UNCHANGED user_points
       ELSE user_points' = AddPoints(user_points, target_id, 0 - WARN_PENALTY)
    /\ UNCHANGED << confessions, column_reason, comments, reactions, user_status, fsm,
                    tasks, presses, starts, admin_kb, posts, notes, credits, next_msg,
                    ADMIN_IDS, authorized_admins, told, attempts, shown, refusals,
                    comments_id_seq, clock, broadcast >>

\* /block <target_id> <days> sent by caller: INSERT INTO user_status ... ON CONFLICT
\* (user_id) DO UPDATE SET is_blocked = True, blocked_until = $2; a missing days
\* argument raises into the except branch
cmd_block(caller, target_id, days) ==
    /\ CommandReaches(fsm[caller].state, 405)
    /\ IF ~MayModerate(caller) \/ target_id = NoArg \/ days = NoArg
       THEN UNCHANGED user_status
       ELSE LET until == Now + days
            IN  user_status' =
                  IF target_id \in DOMAIN user_status
                  THEN [ user_status EXCEPT ![target_id].is_blocked = TRUE,
                                            ![target_id].blocked_until = until ]
                  ELSE (target_id :> [ NewStatusRow EXCEPT !.is_blocked = TRUE,
                                                           !.blocked_until = until ])
                         @@ user_status
    /\ UNCHANGED << confessions, column_reason, comments, reactions, user_points, fsm,
                    tasks, presses, starts, admin_kb, posts, notes, credits, next_msg,
                    ADMIN_IDS, authorized_admins, told, attempts, shown, refusals,
                    comments_id_seq, clock, broadcast >>

\* /pblock <target_id> sent by caller:
\* UPDATE user_status SET is_blocked = True, blocked_until = NULL WHERE user_id = $1
cmd_pblock(caller, target_id) ==
    /\ CommandReaches(fsm[caller].state, 429)
    /\ IF ~MayModerate(caller) \/ target_id = NoArg \/ target_id \notin DOMAIN user_status
       THEN UNCHANGED user_status
       ELSE user_status' = [ user_status EXCEPT ![target_id].is_blocked = TRUE,
                                                ![target_id].blocked_until = NULL ]
    /\ UNCHANGED << confessions, column_reason, comments, reactions, user_points, fsm,
                    tasks, presses, starts, admin_kb, posts, notes, credits, next_msg,
                    ADMIN_IDS, authorized_admins, told, attempts, shown, refusals,
                    comments_id_seq, clock, broadcast >>

\* /unblock <target_id> sent by caller:
\* UPDATE user_status SET is_blocked = False WHERE user_id = $1
cmd_unblock(caller, target_id) ==
    /\ CommandReaches(fsm[caller].state, 441)
    /\ IF ~MayModerate(caller) \/ target_id = NoArg \/ target_id \notin DOMAIN user_status
       THEN UNCHANGED user_status
       ELSE user_status' = [ user_status EXCEPT ![target_id].is_blocked = FALSE ]
    /\ UNCHANGED << confessions, column_reason, comments, reactions, user_points, fsm,
                    tasks, presses, starts, admin_kb, posts, notes, credits, next_msg,
                    ADMIN_IDS, authorized_admins, told, attempts, shown, refusals,
                    comments_id_seq, clock, broadcast >>

\* (a delete that takes the replies to the comment with it)
DeleteCommentWithReplies(cs, c_id) ==
    { c \in cs : c.id # c_id /\ c.parent_comment_id # c_id }

\* DELETE FROM comments WHERE id = $1, with the ON DELETE CASCADE of reactions
DeleteComment(cs, c_id) == { c \in cs : c.id # c_id }
CascadeReactions(rs, c_id) == { r \in rs : r.comment_id # c_id }

\* adm_del_com_<c_id> pressed by caller
admin_delete_comment(caller, c_id) ==
    /\ presses' = presses + 1
    /\ IF caller # ADMIN_ID \/ SelectCommenter(comments, c_id) = NULL
       THEN UNCHANGED << comments, reactions, user_points >>
       ELSE /\ comments' = DeleteComment(comments, c_id)
            /\ reactions' = CascadeReactions(reactions, c_id)
            /\ user_points' = AddPoints(user_points, SelectCommenter(comments, c_id),
                                        0 - DELETE_PENALTY)
    /\ UNCHANGED << confessions, column_reason, user_status, fsm, tasks, starts,
                    admin_kb, posts, notes, credits, next_msg, ADMIN_IDS,
                    authorized_admins, told, attempts, shown, refusals,
                    comments_id_seq, clock, broadcast >>

\* /notify sent by caller
cmd_notify(caller) ==
    /\ CommandReaches(fsm[caller].state, 666)
    /\ IF ~MayModerate(caller)
       THEN UNCHANGED fsm
       ELSE fsm' = [ fsm EXCEPT ![caller].state = "waiting_for_broadcast_message" ]
    /\ UNCHANGED << confessions, column_reason, comments, reactions, user_points,
                    user_status, tasks, presses, starts, admin_kb, posts, notes,
                    credits, next_msg, ADMIN_IDS, authorized_admins, told, attempts,
                    shown, refusals, comments_id_seq, clock, broadcast >>

\* the orders in which a SELECT without ORDER BY may return the rows
RowOrders(rows) ==
    { f \in [ 1..Cardinality(rows) -> rows ] :
        \A i \in DOMAIN f, j \in DOMAIN f : f[i] = f[j] => i = j }

\* SELECT user_id FROM user_points UNION SELECT user_id FROM user_status
BroadcastRecipients == DOMAIN user_points \cup DOMAIN user_status

\* What message.copy_to(chat_id=uid) does for one recipient:
\*   "ok"            the copy is delivered
\*   "forbidden"     TelegramForbiddenError
\*   "bad_request"   TelegramBadRequest
\*   "retry_ok"      TelegramRetryAfter, and the second copy_to is delivered
\*   "retry_raises"  TelegramRetryAfter, and the second copy_to raises
\*   "error"         any other exception
DeliveryOutcomes == { "ok", "forbidden", "bad_request", "retry_ok", "retry_raises", "error" }

\* no broadcast has run yet
NoBroadcast == [ kind |-> "none" ]

\* success = 0, failed = 0 before the loop; tries counts the copy_to calls per recipient
LoopStart(user_ids) ==
    [ kind |-> "loop", n |-> Len(user_ids), tries |-> << >>, success |-> 0, failed |-> 0 ]

\* One pass of the body of `for uid in user_ids`. The second copy_to runs inside the
\* handler of TelegramRetryAfter, where no except clause of the same try covers it:
\* when it raises, the exception leaves the loop and the handler.
Deliver(b, uid, outcome) ==
    CASE outcome = "ok" ->
             [ b EXCEPT !.tries = (uid :> 1) @@ @, !.success = @ + 1 ]
      [] outcome \in { "forbidden", "bad_request", "error" } ->
             [ b EXCEPT !.tries = (uid :> 1) @@ @, !.failed = @ + 1 ]
      [] outcome = "retry_ok" ->
             [ b EXCEPT !.tries = (uid :> 2) @@ @, !.success = @ + 1 ]
      [] outcome = "retry_raises" ->
             [ b EXCEPT !.tries = (uid :> 2) @@ @, !.kind = "raised" ]

\* The loop from recipient i on, and after it status_msg.edit_text with the two
\* counters; a raised exception ends the handler before the report.
RECURSIVE BroadcastLoop(_, _, _, _)
BroadcastLoop(b, user_ids, outcome, i) ==
    IF b.kind = "raised" THEN b
    ELSE IF i > Len(user_ids) THEN [ b EXCEPT !.kind = "report" ]
    ELSE BroadcastLoop(Deliver(b, user_ids[i], outcome[user_ids[i]]), user_ids, outcome,
                       i + 1)

\* The next message of u is copied to every user of user_points and user_status, or
\* is /cancel; both ways state.clear() runs and no table is written. outcome[uid] is
\* what the delivery to uid does.
process_broadcast(u, text, outcome) ==
    /\ fsm[u].state = "waiting_for_broadcast_message"
    /\ fsm' = [ fsm EXCEPT ![u] = FsmIdle ]
    /\ IF text = TextCancel
       THEN UNCHANGED broadcast
       ELSE \E user_ids \in RowOrders(BroadcastRecipients) :
                broadcast' = BroadcastLoop(LoopStart(user_ids), user_ids, outcome, 1)
    /\ UNCHANGED << confessions, column_reason, comments, reactions, user_points,
                    user_status, tasks, presses, starts, admin_kb, posts, notes,
                    credits, next_msg, ADMIN_IDS, authorized_admins, told, attempts,
                    shown, refusals, comments_id_seq, clock >>

(***************************************************************************)
(* MODULE 10: the moderator list.                                          *)
(***************************************************************************)
\* /addadmin <new_admin_id> sent by caller:
\* INSERT INTO authorized_admins ... ON CONFLICT DO NOTHING, then the local append
cmd_add_admin(caller, new_admin_id) ==
    /\ CommandReaches(fsm[caller].state, 737)
    /\ IF caller # PRIMARY_ADMIN \/ new_admin_id = NoArg
       THEN UNCHANGED << authorized_admins, ADMIN_IDS >>
       ELSE /\ authorized_admins' = authorized_admins \cup { new_admin_id }
            /\ ADMIN_IDS' = IF ListHas(ADMIN_IDS, new_admin_id)
                            THEN ADMIN_IDS
                            ELSE Append(ADMIN_IDS, new_admin_id)
    /\ UNCHANGED << confessions, column_reason, comments, reactions, user_points,
                    user_status, fsm, tasks, presses, starts, admin_kb, posts, notes,
                    credits, next_msg, told, attempts, shown, refusals, comments_id_seq, clock,
                    broadcast >>

\* /removeadmin <target_id> sent by caller: int(None) raises into the except branch;
\* DELETE FROM authorized_admins WHERE user_id = $1, then the local remove
cmd_remove_admin(caller, target_id) ==
    /\ CommandReaches(fsm[caller].state, 762)
    /\ IF caller # PRIMARY_ADMIN \/ target_id = NoArg \/ target_id = PRIMARY_ADMIN
       THEN UNCHANGED << authorized_admins, ADMIN_IDS >>
       ELSE /\ authorized_admins' = authorized_admins \ { target_id }
            /\ ADMIN_IDS' = IF ListHas(ADMIN_IDS, target_id)
                            THEN ListRemove(ADMIN_IDS, target_id)
                            ELSE ADMIN_IDS
    /\ UNCHANGED << confessions, column_reason, comments, reactions, user_points,
                    user_status, fsm, tasks, presses, starts, admin_kb, posts, notes,
                    credits, next_msg, told, attempts, shown, refusals, comments_id_seq, clock,
                    broadcast >>

\* The handler of adm_del_com_<c_id> statement by statement, for runs in which
\* presses are handled while others are suspended at an await.
\* The press, the guard and SELECT user_id FROM comments WHERE id = $1
admin_delete_select(caller, c_id) ==
    /\ presses' = presses + 1
    /\ tasks' = IF caller # ADMIN_ID \/ SelectCommenter(comments, c_id) = NULL
                THEN tasks
                ELSE tasks \cup
                       { [ id |-> presses + 1, kind |-> "delete", pc |-> "delete",
                           c_id |-> c_id, user_id |-> SelectCommenter(comments, c_id) ] }
    /\ UNCHANGED << confessions, column_reason, comments, reactions, user_points,
                    user_status, fsm, starts, admin_kb, posts, notes, credits, next_msg,
                    ADMIN_IDS, authorized_admins, told, attempts, shown, refusals,
                    comments_id_seq, clock, broadcast >>

\* DELETE FROM comments WHERE id = $1
admin_delete_row(t) ==
    /\ t \in TasksOf("delete") /\ t.pc = "delete"
    /\ comments' = DeleteComment(comments, t.c_id)
    /\ reactions' = CascadeReactions(reactions, t.c_id)
    /\ tasks' = (tasks \ {t}) \cup { [ t EXCEPT !.pc = "penalty" ] }
    /\ UNCHANGED << confessions, column_reason, user_points, user_status, fsm, presses,
                    starts, admin_kb, posts, notes, credits, next_msg, ADMIN_IDS,
                    authorized_admins, told, attempts, shown, refusals,
                    comments_id_seq, clock, broadcast >>

\* UPDATE user_points SET points = points - 20 WHERE user_id = $1
admin_delete_penalty(t) ==
    /\ t \in TasksOf("delete") /\ t.pc = "penalty"
    /\ user_points' = AddPoints(user_points, t.user_id, 0 - DELETE_PENALTY)
    /\ tasks' = tasks \ {t}
    /\ UNCHANGED << confessions, column_reason, comments, reactions, user_status, fsm,
                    presses, starts, admin_kb, posts, notes, credits, next_msg,
                    ADMIN_IDS, authorized_admins, told, attempts, shown, refusals,
                    comments_id_seq, clock, broadcast >>

\* the next statement of the suspended handler t is a call of the database
AtStorageCall(t) ==
    \/ t.kind = "approve" /\ t.pc \in { "save", "credit" }
    \/ t.kind = "react"
    \/ t.kind = "delete"

\* The database call handler t is suspended at raises: no handler of src/ catches
\* it, so the handler ends there and what it wrote before stays written.
storage_fails(t) ==
    /\ t \in tasks /\ AtStorageCall(t)
    /\ tasks' = tasks \ {t}
    /\ UNCHANGED << confessions, column_reason, comments, reactions, user_points,
                    user_status, fsm, presses, starts, admin_kb, posts, notes, credits,
                    next_msg, ADMIN_IDS, authorized_admins, told, attempts, shown,
                    refusals, comments_id_seq, clock, broadcast >>

(***************************************************************************)
(* Startup: setup_db, run by main() when the process starts.               *)
(***************************************************************************)
\* (a startup that leaves the configured list as it is)
SyncAdminsSkipped(list, rows) == list

\* for r in rows: if r['user_id'] not in ADMIN_IDS: ADMIN_IDS.append(r['user_id'])
\* (the rows of the PRIMARY KEY column user_id are distinct)
SyncAdmins(list, rows) == list \o SelectSeq(rows, LAMBDA r : ~ListHas(list, r))

\* The process stops and starts again: the module is loaded anew (ADMIN_IDS from the
\* configuration, MemoryStorage empty, no handler running) and setup_db syncs the
\* moderators from the table.
restart ==
    /\ \E rows \in RowOrders(authorized_admins) :
           ADMIN_IDS' = SyncAdmins(ConfiguredAdmins, rows)
    /\ fsm' = [ u \in Users |-> FsmIdle ]
    /\ tasks' = {}
    /\ UNCHANGED << confessions, column_reason, comments, reactions, user_points,
                    user_status, presses, starts, admin_kb, posts, notes, credits,
                    next_msg, authorized_admins, told, attempts, shown, refusals,
                    comments_id_seq, clock, broadcast >>

(***************************************************************************)
(* Specifications.                                                         *)
(***************************************************************************)
NoCounts == [ c \in ConfIds |-> 0 ]
NoKeyboards == [ c \in ConfIds |-> FALSE ]
NoOneTold == [ c \in ConfIds |-> FALSE ]
NoAttempts == [ c \in ConfIds |-> {} ]
\* nothing was shown yet
NothingShown == [ kind |-> "none" ]
\* Every user has sent /start, which is how a chat with the bot begins.
FreshLedger == [ u \in Users |-> 0 ]

\* the sample texts the submission handler does not refuse
AcceptedTexts == { text \in SampleTexts : ~Refused(text) }

\* The state after setup_db on an empty database: the submission flow.
InitFlow ==
    /\ confessions = << >>
    /\ column_reason = FALSE
    /\ comments = {}
    /\ reactions = {}
    /\ user_points = << >>
    /\ user_status = << >>
    /\ fsm = [ u \in Users |-> FsmIdle ]
    /\ tasks = {}
    /\ presses = 0
    /\ starts = 0
    /\ admin_kb = NoKeyboards
    /\ posts = NoCounts
    /\ notes = NoCounts
    /\ credits = NoCounts
    /\ next_msg = 1
    /\ ADMIN_IDS = ConfiguredAdmins
    /\ authorized_admins = {}
    /\ told = NoOneTold
    /\ attempts = NoAttempts
    /\ shown = NothingShown
    /\ refusals = 0
    /\ clock = 0
    /\ broadcast = NoBroadcast
    /\ comments_id_seq = 0

NextFlow ==
    \E u \in Users :
        \/ handle_rules_acceptance(u)
        \/ starts < MaxFlowStarts /\ start_confess(u)
        \/ \E cat \in Cats : process_category_toggle(u, cat)
        \/ categories_done(u)
        \/ \E text \in AcceptedTexts :
               handle_confession_submission(u, text, TRUE, TRUE)
        \/ cmd_cancel(u)

SpecFlow == InitFlow /\ [][NextFlow]_vars

\* Moderation: every user but the admin has accepted the rules, chosen one category
\* and pressed Done.
\* The confessions table may or may not have the rejection_reason column: setup_db
\* creates it without, and CREATE TABLE IF NOT EXISTS keeps a table that exists.
InitDecide ==
    /\ confessions = << >>
    /\ column_reason \in BOOLEAN
    /\ comments = {}
    /\ reactions = {}
    /\ user_points = FreshLedger
    /\ user_status = [ u \in Users \ {ADMIN_ID} |->
                         [ NewStatusRow EXCEPT !.has_accepted_rules = TRUE ] ]
    /\ fsm = [ u \in Users |->
                 IF u = ADMIN_ID
                 THEN FsmIdle
                 ELSE [ state |-> "waiting_for_text",
                        data |-> UpdateData(NoData, "chosen_cats", << CATEGORIES[1] >>) ] ]
    /\ tasks = {}
    /\ presses = 0
    /\ starts = 0
    /\ admin_kb = NoKeyboards
    /\ posts = NoCounts
    /\ notes = NoCounts
    /\ credits = NoCounts
    /\ next_msg = 1
    /\ ADMIN_IDS = ConfiguredAdmins
    /\ authorized_admins = {}
    /\ told = NoOneTold
    /\ attempts = NoAttempts
    /\ shown = NothingShown
    /\ refusals = 0
    /\ clock = 0
    /\ broadcast = NoBroadcast
    /\ comments_id_seq = 0

ReasonTexts == { NoText, TextTen }

NextDecide ==
    \/ \E u \in Users, text \in AcceptedTexts, answered \in BOOLEAN, delivered \in BOOLEAN :
           handle_confession_submission(u, text, answered, delivered)
    \/ \E caller \in Users, conf_id \in ConfIds :
           presses < MaxPresses /\ approve_submission(caller, conf_id)
    \/ \E t \in tasks, sent \in BOOLEAN : approve_post(t, sent)
    \/ \E t \in tasks : approve_save(t)
    \/ \E t \in tasks : approve_credit(t)
    \/ \E t \in tasks, edited \in BOOLEAN : approve_edit(t, edited)
    \/ \E t \in tasks : approve_notify(t)
    \/ \E caller \in Users, conf_id \in ConfIds :
           presses < MaxPresses /\ reject_submission(caller, conf_id)
    \/ \E caller \in Users, text \in ReasonTexts, answered \in BOOLEAN :
           process_rejection(caller, text, answered)

SpecDecide == InitDecide /\ [][NextDecide]_vars

\* Reactions: confession 1 of user 2 is approved and published, NumComments comments
\* stand under it, comment i written by user CommentAuthor(i).
CommentIds == 1..NumComments
CommentAuthor(i) == (i % NumUsers) + 1
PublishedLedger == [ FreshLedger EXCEPT ![2] = POINTS_PER_CONFESSION ]
PublishedConfession ==
    [ NewConfession(TextTen, 2, << CATEGORIES[1] >>)
        EXCEPT !.status = "approved", !.message_id = 1 ]

InitReact ==
    /\ confessions = << PublishedConfession >>
    /\ column_reason = FALSE
    /\ comments = { [ id |-> i, confession_id |-> 1, user_id |-> CommentAuthor(i),
                       text |-> TextTen, parent_comment_id |-> NULL ] : i \in CommentIds }
    /\ reactions = {}
    /\ user_points = PublishedLedger
    /\ user_status = [ u \in {2} |-> [ NewStatusRow EXCEPT !.has_accepted_rules = TRUE ] ]
    /\ fsm = [ u \in Users |-> FsmIdle ]
    /\ tasks = {}
    /\ presses = 0
    /\ starts = 0
    /\ admin_kb = NoKeyboards
    /\ posts = [ NoCounts EXCEPT ![1] = 1 ]
    /\ notes = [ NoCounts EXCEPT ![1] = 1 ]
    /\ credits = [ NoCounts EXCEPT ![1] = 1 ]
    /\ next_msg = 2
    /\ ADMIN_IDS = ConfiguredAdmins
    /\ authorized_admins = {}
    /\ told = [ NoOneTold EXCEPT ![1] = TRUE ]
    /\ attempts = [ NoAttempts EXCEPT ![1] = { ADMIN_ID } ]
    /\ shown = NothingShown
    /\ refusals = 0
    /\ clock = 0
    /\ broadcast = NoBroadcast
    /\ comments_id_seq = NumComments

ReactionKinds == { "like", "dislike" }

NextReact ==
    \/ \E uid \in Users, kind \in ReactionKinds, c_id \in CommentIds :
           presses < MaxPresses /\ handle_reactions(uid, kind, c_id)
    \/ \E t \in tasks : react_commenter(t)
    \/ \E t \in tasks : react_write(t)
    \/ \E t \in tasks : react_points(t)

SpecReact == InitReact /\ [][NextReact]_vars

\* Reactions pressed one after the other: a press is handled to its end before the
\* next one arrives.
NextReactSeq ==
    \/ \E uid \in Users, kind \in ReactionKinds, c_id \in CommentIds :
           Quiescent /\ presses < MaxCalls /\ handle_reactions(uid, kind, c_id)
    \/ \E t \in tasks : react_commenter(t)
    \/ \E t \in tasks : react_write(t)
    \/ \E t \in tasks : react_points(t)

SpecReactSeq == InitReact /\ [][NextReactSeq]_vars

\* Submission: every user has accepted the rules, chosen categories and pressed Done.
SelectionSamples ==
    { << CATEGORIES[1] >>, << CATEGORIES[2], CATEGORIES[1] >>,
      << CATEGORIES[2], CATEGORIES[1], CATEGORIES[3] >> }

InitSubmit ==
    /\ confessions = << >>
    /\ column_reason = FALSE
    /\ comments = {}
    /\ reactions = {}
    /\ user_points = FreshLedger
    /\ user_status = [ u \in Users |-> [ NewStatusRow EXCEPT !.has_accepted_rules = TRUE ] ]
    /\ \E sel \in [ Users -> SelectionSamples ] :
         fsm = [ u \in Users |->
                   [ state |-> "waiting_for_text",
                     data |-> UpdateData(NoData, "chosen_cats", sel[u]) ] ]
    /\ tasks = {}
    /\ presses = 0
    /\ starts = 0
    /\ admin_kb = NoKeyboards
    /\ posts = NoCounts
    /\ notes = NoCounts
    /\ credits = NoCounts
    /\ next_msg = 1
    /\ ADMIN_IDS = ConfiguredAdmins
    /\ authorized_admins = {}
    /\ told = NoOneTold
    /\ attempts = NoAttempts
    /\ shown = NothingShown
    /\ refusals = 0
    /\ clock = 0
    /\ broadcast = NoBroadcast
    /\ comments_id_seq = 0

AdminArgs == Users \cup { NoArg }

NextSubmit ==
    \E u \in Users, text \in SampleTexts, answered \in BOOLEAN, delivered \in BOOLEAN :
        (Refused(text) => refusals < MaxRefusals)
          /\ handle_confession_submission(u, text, answered, delivered)

SpecSubmit == InitSubmit /\ [][NextSubmit]_vars

\* Submission while the creator changes the moderator list.
NextNotify ==
    \/ \E u \in Users, text \in AcceptedTexts, answered \in BOOLEAN, delivered \in BOOLEAN :
           handle_confession_submission(u, text, answered, delivered)
    \/ \E caller \in Users, new_admin_id \in AdminArgs :
           cmd_add_admin(caller, new_admin_id)
    \/ \E caller \in Users, target_id \in AdminArgs :
           cmd_remove_admin(caller, target_id)

SpecNotify == InitSubmit /\ [][NextNotify]_vars

\* Discussion: confession 1 is published with its comments, every user has accepted
\* the rules; users start submissions and replies and send /cancel.
InitTalk ==
    /\ confessions = << PublishedConfession >>
    /\ column_reason = FALSE
    /\ comments = { [ id |-> i, confession_id |-> 1, user_id |-> CommentAuthor(i),
                       text |-> TextTen, parent_comment_id |-> NULL ] : i \in CommentIds }
    /\ reactions = {}
    /\ user_points = PublishedLedger
    /\ user_status = [ u \in Users |-> [ NewStatusRow EXCEPT !.has_accepted_rules = TRUE ] ]
    /\ fsm = [ u \in Users |-> FsmIdle ]
    /\ tasks = {}
    /\ presses = 0
    /\ starts = 0
    /\ admin_kb = NoKeyboards
    /\ posts = [ NoCounts EXCEPT ![1] = 1 ]
    /\ notes = [ NoCounts EXCEPT ![1] = 1 ]
    /\ credits = [ NoCounts EXCEPT ![1] = 1 ]
    /\ next_msg = 2
    /\ ADMIN_IDS = ConfiguredAdmins
    /\ authorized_admins = {}
    /\ told = [ NoOneTold EXCEPT ![1] = TRUE ]
    /\ attempts = [ NoAttempts EXCEPT ![1] = { ADMIN_ID } ]
    /\ shown = NothingShown
    /\ refusals = 0
    /\ clock = 0
    /\ broadcast = NoBroadcast
    /\ comments_id_seq = NumComments

TalkCats == { CATEGORIES[1], CATEGORIES[2] }
ReplyTexts == { TextTen, TextCancel }

NextTalk ==
    \E u \in Users :
        \/ starts < MaxFlowStarts /\ start_confess(u)
        \/ \E cat \in TalkCats : process_category_toggle(u, cat)
        \/ categories_done(u)
        \/ refusals < MaxRefusals /\ handle_confession_submission(u, TextCancel, TRUE, TRUE)
        \/ cmd_cancel(u)
        \/ \E c_id \in 1..comments_id_seq : start_reply(u, c_id)
        \/ \E text \in ReplyTexts :
               comments_id_seq < NumComments + MaxReplies /\ process_reply(u, text)

SpecTalk == InitTalk /\ [][NextTalk]_vars

\* Threads: from the published confession with its comments, users press Reply under
\* a comment that was shown to them and send the text, while the admin deletes
\* comments.
NextThread ==
    \/ \E u \in Users, c_id \in 1..comments_id_seq : start_reply(u, c_id)
    \/ \E u \in Users :
           comments_id_seq < NumComments + MaxReplies /\ process_reply(u, TextTen)
    \/ \E c_id \in 1..comments_id_seq :
           presses < MaxPresses /\ admin_delete_comment(ADMIN_ID, c_id)

SpecThread == InitTalk /\ [][NextThread]_vars

\* Moderation: confession 1 of user 2 is either pending, its notification with the
\* Approve / Reject buttons delivered to the admin, or published with its comments.
PendingConfession == NewConfession(TextTen, 2, << CATEGORIES[1] >>)

InitModerate ==
    /\ column_reason \in BOOLEAN
    /\ \/ /\ confessions = << PendingConfession >>
          /\ comments = {}
          /\ user_points = FreshLedger
          /\ admin_kb = [ NoKeyboards EXCEPT ![1] = TRUE ]
          /\ posts = NoCounts
          /\ notes = NoCounts
          /\ credits = NoCounts
          /\ next_msg = 1
          /\ comments_id_seq = 0
       \/ /\ confessions = << PublishedConfession >>
          /\ comments = { [ id |-> i, confession_id |-> 1, user_id |-> CommentAuthor(i),
                             text |-> TextTen, parent_comment_id |-> NULL ] :
                           i \in CommentIds }
          /\ user_points = PublishedLedger
          /\ admin_kb = NoKeyboards
          /\ posts = [ NoCounts EXCEPT ![1] = 1 ]
          /\ notes = [ NoCounts EXCEPT ![1] = 1 ]
          /\ credits = [ NoCounts EXCEPT ![1] = 1 ]
          /\ next_msg = 2
          /\ comments_id_seq = NumComments
    /\ reactions = {}
    /\ user_status = [ u \in {2} |-> [ NewStatusRow EXCEPT !.has_accepted_rules = TRUE ] ]
    /\ fsm = [ u \in Users |-> FsmIdle ]
    /\ tasks = {}
    /\ presses = 0
    /\ starts = 0
    /\ ADMIN_IDS = ConfiguredAdmins
    /\ authorized_admins = {}
    /\ told = [ NoOneTold EXCEPT ![1] = TRUE ]
    /\ attempts = [ NoAttempts EXCEPT ![1] = { ADMIN_ID } ]
    /\ shown = NothingShown
    /\ refusals = 0
    /\ clock = 0
    /\ broadcast = NoBroadcast

SampleDays == 7
DaysArgs == { NoArg, SampleDays }
BroadcastTexts == { TextTen, TextCancel }
\* every copy_to of the broadcast is delivered
EveryCopyArrives == [ uid \in Users |-> "ok" ]

\* the target of a warning has not been warned MaxWarns times yet
WarnAllowed(target_id) ==
    target_id \in DOMAIN user_points =>
        user_points[target_id] > 0 - MaxWarns * WARN_PENALTY

\* the user a moderation command names: the author of confession 1, whose id the
\* admin reads in the notification of the submission
Targets == { PendingConfession.user_id, NoArg }

\* Commands and presses come one after the other: each is handled to its end
\* before the next one arrives.
NextModerate ==
    \/ \E caller \in Users, target_id \in Targets :
           Quiescent /\ WarnAllowed(target_id) /\ cmd_warn(caller, target_id)
    \/ \E caller \in Users, target_id \in Targets, days \in DaysArgs :
           Quiescent /\ cmd_block(caller, target_id, days)
    \/ \E caller \in Users, target_id \in Targets :
           Quiescent /\ cmd_pblock(caller, target_id)
    \/ \E caller \in Users, target_id \in Targets :
           Quiescent /\ cmd_unblock(caller, target_id)
    \/ \E caller \in Users, conf_id \in ConfIds :
           Quiescent /\ presses < MaxPresses /\ approve_submission(caller, conf_id)
    \/ \E t \in tasks, sent \in BOOLEAN : approve_post(t, sent)
    \/ \E t \in tasks : approve_save(t)
    \/ \E t \in tasks : approve_credit(t)
    \/ \E t \in tasks, edited \in BOOLEAN : approve_edit(t, edited)
    \/ \E t \in tasks : approve_notify(t)
    \/ \E caller \in Users, conf_id \in ConfIds :
           Quiescent /\ presses < MaxPresses /\ reject_submission(caller, conf_id)
    \/ \E caller \in Users, text \in ReasonTexts, answered \in BOOLEAN :
           Quiescent /\ process_rejection(caller, text, answered)
    \/ \E caller \in Users, c_id \in 1..comments_id_seq :
           Quiescent /\ presses < MaxPresses /\ admin_delete_comment(caller, c_id)
    \/ \E caller \in Users : Quiescent /\ cmd_notify(caller)
    \/ \E u \in Users, text \in BroadcastTexts :
           Quiescent /\ process_broadcast(u, text, EveryCopyArrives)
    \/ \E caller \in Users, new_admin_id \in Targets :
           Quiescent /\ cmd_add_admin(caller, new_admin_id)
    \/ \E caller \in Users, target_id \in Targets :
           Quiescent /\ cmd_remove_admin(caller, target_id)

SpecModerate == InitModerate /\ [][NextModerate]_vars

(***************************************************************************)
(* MODULE 4: the access gate (BlockMiddleware), run on every event before  *)
(* the handlers.                                                           *)
(***************************************************************************)
\* the block of a status row is in force: blocked_until unset or in the future
BlockActive(row) ==
    row.is_blocked /\ (row.blocked_until = NULL \/ row.blocked_until > Now)

\* the block of u has run out and was not cleared yet
BlockExpired(u) ==
    /\ u \in DOMAIN user_status
    /\ user_status[u].is_blocked
    /\ ~BlockActive(user_status[u])

\* the gate on an event of u whose block has run out: the block is cleared and the
\* event goes on to its handler
gate_clear(u) ==
    /\ BlockExpired(u)
    /\ user_status' = [ user_status EXCEPT ![u].is_blocked = FALSE ]
    /\ UNCHANGED << confessions, column_reason, comments, reactions, user_points, fsm,
                    tasks, presses, starts, admin_kb, posts, notes, credits, next_msg,
                    ADMIN_IDS, authorized_admins, told, attempts, shown, refusals,
                    comments_id_seq, clock, broadcast >>

\* (a gate that lets every event through)
ReachesAlways(u) == TRUE

\* the event of u reaches its handler: u has no block (a block that has run out is
\* first cleared by gate_clear)
Reaches(u) == u \notin DOMAIN user_status \/ ~user_status[u].is_blocked

\* time passes
TickDays == SampleDays \div 2 + 1
Tick ==
    /\ clock' = clock + TickDays
    /\ UNCHANGED << confessions, column_reason, comments, reactions, user_points,
                    user_status, fsm, tasks, presses, starts, admin_kb, posts, notes,
                    credits, next_msg, ADMIN_IDS, authorized_admins, told, attempts,
                    shown, refusals, comments_id_seq, broadcast >>

\* Access gate: every user has accepted the rules; there is no confession yet, or
\* confession 1 is published with its comments. The admin blocks and unblocks the
\* author of confession 1 while time passes and that user goes on with flows.
Blockable == { PublishedConfession.user_id }

InitGate ==
    /\ \E published \in BOOLEAN :
         /\ confessions = IF published THEN << PublishedConfession >> ELSE << >>
         /\ comments = IF published
                       THEN { [ id |-> i, confession_id |-> 1, user_id |-> CommentAuthor(i),
                                text |-> TextTen, parent_comment_id |-> NULL ] :
                              i \in CommentIds }
                       ELSE {}
         /\ comments_id_seq = IF published THEN NumComments ELSE 0
         /\ user_points = IF published THEN PublishedLedger ELSE FreshLedger
         /\ posts = [ NoCounts EXCEPT ![1] = IF published THEN 1 ELSE 0 ]
         /\ notes = [ NoCounts EXCEPT ![1] = IF published THEN 1 ELSE 0 ]
         /\ credits = [ NoCounts EXCEPT ![1] = IF published THEN 1 ELSE 0 ]
         /\ next_msg = IF published THEN 2 ELSE 1
         /\ told = [ NoOneTold EXCEPT ![1] = published ]
         /\ attempts = [ NoAttempts EXCEPT ![1] = IF published THEN { ADMIN_ID } ELSE {} ]
    /\ column_reason = FALSE
    /\ reactions = {}
    /\ user_status = [ u \in Users |-> [ NewStatusRow EXCEPT !.has_accepted_rules = TRUE ] ]
    /\ fsm = [ u \in Users |-> FsmIdle ]
    /\ tasks = {}
    /\ presses = 0
    /\ starts = 0
    /\ admin_kb = NoKeyboards
    /\ ADMIN_IDS = ConfiguredAdmins
    /\ authorized_admins = {}
    /\ shown = NothingShown
    /\ refusals = 0
    /\ clock = 0
    /\ broadcast = NoBroadcast

NextGate ==
    \/ clock < MaxTicks * TickDays /\ Tick
    \/ \E target_id \in Blockable :
           /\ Quiescent /\ Reaches(ADMIN_ID)
           /\ \/ cmd_block(ADMIN_ID, target_id, SampleDays)
              \/ cmd_pblock(ADMIN_ID, target_id)
              \/ cmd_unblock(ADMIN_ID, target_id)
    \/ \E u \in Blockable : gate_clear(u)
    \/ \E u \in Blockable :
           /\ Quiescent /\ Reaches(u)
           /\ \/ starts < MaxFlowStarts /\ start_confess(u)
              \/ process_category_toggle(u, CATEGORIES[1])
              \/ categories_done(u)
              \/ handle_confession_submission(u, TextTen, TRUE, TRUE)
              \/ comments_id_seq > 0 /\ start_reply(u, 1)
              \/ comments_id_seq < NumComments + MaxReplies /\ process_reply(u, TextTen)
              \/ presses < MaxReplies /\ comments_id_seq > 0 /\ handle_reactions(u, "like", 1)
    \/ \E t \in tasks : react_commenter(t) \/ react_write(t) \/ react_points(t)

SpecGate == InitGate /\ [][NextGate]_vars

\* Moderator list: every user has accepted the rules and is idle; users send
\* /addadmin and /removeadmin, start submissions and replies, and the process
\* restarts.
NextRestart ==
    \/ \E caller \in Users, new_admin_id \in AdminArgs : cmd_add_admin(caller, new_admin_id)
    \/ \E caller \in Users, target_id \in AdminArgs : cmd_remove_admin(caller, target_id)
    \/ \E u \in Users : starts < MaxFlowStarts /\ start_confess(u)
    \/ \E u \in Users : process_category_toggle(u, CATEGORIES[1])
    \/ \E u \in Users : categories_done(u)
    \/ \E u \in Users, c_id \in CommentIds : start_reply(u, c_id)
    \/ restart

SpecRestart == InitTalk /\ [][NextRestart]_vars

\* Deletions: the viewers open the comments of the published confession and press
\* Reply, and the admin presses Delete under the comments, the presses handled while others are suspended.
NextRace ==
    \/ \E u \in Users : cmd_start_view(u, 1)
    \/ \E u \in Users, c_id \in CommentIds : start_reply(u, c_id)
    \/ \E c_id \in CommentIds :
           presses < MaxPresses /\ admin_delete_select(ADMIN_ID, c_id)
    \/ \E t \in tasks : admin_delete_row(t)
    \/ \E t \in tasks : admin_delete_penalty(t)

SpecRace == InitReact /\ [][NextRace]_vars

\* Failing database: the admin approves the pending confession, or deletes comments
\* of the published one while viewers react to them; any database call may raise.
NextFail ==
    \/ presses < MaxPresses /\ approve_submission(ADMIN_ID, 1)
    \/ \E t \in tasks, sent \in BOOLEAN : approve_post(t, sent)
    \/ \E t \in tasks : approve_save(t)
    \/ \E t \in tasks : approve_credit(t)
    \/ \E t \in tasks, edited \in BOOLEAN : approve_edit(t, edited)
    \/ \E t \in tasks : approve_notify(t)
    \/ \E uid \in Users, c_id \in CommentIds :
           Quiescent /\ presses < MaxPresses /\ comments # {}
             /\ handle_reactions(uid, "like", c_id)
    \/ \E t \in tasks : react_commenter(t)
    \/ \E t \in tasks : react_write(t)
    \/ \E t \in tasks : react_points(t)
    \/ \E c_id \in CommentIds :
           Quiescent /\ presses < MaxPresses /\ admin_delete_select(ADMIN_ID, c_id)
    \/ \E t \in tasks : admin_delete_row(t)
    \/ \E t \in tasks : admin_delete_penalty(t)
    \/ \E t \in tasks : storage_fails(t)

SpecFail == InitModerate /\ [][NextFail]_vars

\* Ledger: table user_points holds a row only for the users who have sent /start.
\* Confession 1 of user 2 is pending with its buttons shown to the admin, or
\* published with its comments; the admin approves, warns and deletes comments,
\* viewers react (also under a comment deleted since it was shown to them), users
\* send /start, one event handled after the other.
InitLedger ==
    /\ \E rows \in SUBSET Users, published \in BOOLEAN :
         /\ confessions = IF published THEN << PublishedConfession >>
                                       ELSE << PendingConfession >>
         /\ comments = IF published
                       THEN { [ id |-> i, confession_id |-> 1, user_id |-> CommentAuthor(i),
                                text |-> TextTen, parent_comment_id |-> NULL ] :
                              i \in CommentIds }
                       ELSE {}
         /\ comments_id_seq = IF published THEN NumComments ELSE 0
         /\ user_points = [ u \in rows |->
                              IF published /\ u = PublishedConfession.user_id
                              THEN POINTS_PER_CONFESSION ELSE 0 ]
         /\ admin_kb = [ NoKeyboards EXCEPT ![1] = ~published ]
         /\ posts = [ NoCounts EXCEPT ![1] = IF published THEN 1 ELSE 0 ]
         /\ notes = [ NoCounts EXCEPT ![1] = IF published THEN 1 ELSE 0 ]
         /\ credits = [ NoCounts EXCEPT ![1] = IF published THEN 1 ELSE 0 ]
         /\ next_msg = IF published THEN 2 ELSE 1
    /\ column_reason = FALSE
    /\ reactions = {}
    /\ user_status = [ u \in {2} |-> [ NewStatusRow EXCEPT !.has_accepted_rules = TRUE ] ]
    /\ fsm = [ u \in Users |-> FsmIdle ]
    /\ tasks = {}
    /\ presses = 0
    /\ starts = 0
    /\ ADMIN_IDS = ConfiguredAdmins
    /\ authorized_admins = {}
    /\ told = [ NoOneTold EXCEPT ![1] = TRUE ]
    /\ attempts = [ NoAttempts EXCEPT ![1] = { ADMIN_ID } ]
    /\ shown = NothingShown
    /\ refusals = 0
    /\ clock = 0
    /\ broadcast = NoBroadcast

NextLedger ==
    \/ \E u \in Users : Quiescent /\ cmd_start(u)
    \/ \E target_id \in Users :
           Quiescent /\ WarnAllowed(target_id) /\ cmd_warn(ADMIN_ID, target_id)
    \/ Quiescent /\ presses < MaxPresses /\ approve_submission(ADMIN_ID, 1)
    \/ \E t \in tasks : approve_post(t, TRUE)
    \/ \E t \in tasks : approve_save(t)
    \/ \E t \in tasks : approve_credit(t)
    \/ \E t \in tasks : approve_edit(t, TRUE)
    \/ \E t \in tasks : approve_notify(t)
    \/ \E uid \in Users, kind \in ReactionKinds, c_id \in CommentIds :
           Quiescent /\ presses < MaxPresses /\ comments_id_seq > 0
             /\ handle_reactions(uid, kind, c_id)
    \/ \E t \in tasks : react_commenter(t)
    \/ \E t \in tasks : react_write(t)
    \/ \E t \in tasks : react_points(t)
    \/ \E c_id \in CommentIds :
           Quiescent /\ presses < MaxPresses /\ admin_delete_comment(ADMIN_ID, c_id)

SpecLedger == InitLedger /\ [][NextLedger]_vars

\* Comment pages: confession 1 of user 2 with a number of comments under it, every
\* third one a reply to an earlier one; it is published, or published and then
\* rejected, or (without comments) still pending.
LargestTotal == 2 * PAGE_SIZE + 7
Totals == { 0, 1, PAGE_SIZE, PAGE_SIZE + 1, LargestTotal }
ParentOf(i) == IF i % 3 = 0 THEN i \div 3 ELSE NULL
\* ids a deep link names: the confessions there can be, and one there is not
ViewIds == 1..(MaxConfessions + 1)

InitList ==
    /\ \E total \in Totals, status \in { "approved", "rejected", "pending" } :
         /\ status = "pending" => total = 0
         /\ confessions =
               << IF status = "pending"
                  THEN PendingConfession
                  ELSE [ PublishedConfession EXCEPT
                           !.status = status,
                           !.rejection_reason =
                               IF status = "rejected" THEN TextTen ELSE NoText ] >>
         /\ column_reason = (status = "rejected")
         /\ comments = { [ id |-> i, confession_id |-> 1, user_id |-> CommentAuthor(i),
                            text |-> TextTen, parent_comment_id |-> ParentOf(i) ] :
                          i \in 1..total }
         /\ comments_id_seq = total
         /\ user_points = IF status = "pending" THEN FreshLedger ELSE PublishedLedger
         /\ posts = [ NoCounts EXCEPT ![1] = IF status = "pending" THEN 0 ELSE 1 ]
         /\ credits = [ NoCounts EXCEPT ![1] = IF status = "pending" THEN 0 ELSE 1 ]
         /\ notes = [ NoCounts EXCEPT ![1] =
                        IF status = "pending" THEN 0
                        ELSE IF status = "approved" THEN 1 ELSE 2 ]
         /\ next_msg = IF status = "pending" THEN 1 ELSE 2
    /\ reactions = {}
    /\ user_status = [ u \in {2} |-> [ NewStatusRow EXCEPT !.has_accepted_rules = TRUE ] ]
    /\ fsm = [ u \in Users |-> FsmIdle ]
    /\ tasks = {}
    /\ presses = 0
    /\ starts = 0
    /\ admin_kb = NoKeyboards
    /\ ADMIN_IDS = ConfiguredAdmins
    /\ authorized_admins = {}
    /\ told = [ NoOneTold EXCEPT ![1] = TRUE ]
    /\ attempts = [ NoAttempts EXCEPT ![1] = { ADMIN_ID } ]
    /\ shown = NothingShown
    /\ refusals = 0
    /\ clock = 0
    /\ broadcast = NoBroadcast

\* the comments whose Delete button is pressed: the oldest and the newest
DeleteSamples == { 1, comments_id_seq }

NextList ==
    \/ \E u \in Users, conf_id \in ViewIds : cmd_start_view(u, conf_id)
    \/ \E u \in Users : handle_pagination(u)
    \/ \E caller \in Users, c_id \in DeleteSamples :
           presses < MaxPresses /\ admin_delete_comment(caller, c_id)
    \/ \E new_admin_id \in Users \ { PRIMARY_ADMIN } :
           cmd_add_admin(PRIMARY_ADMIN, new_admin_id)

SpecList == InitList /\ [][NextList]_vars

(***************************************************************************)
(* Properties of the moderator decisions (SpecDecide).                     *)
(***************************************************************************)
Decided(c) == confessions[c].status # "pending"

\* C1: first decision wins.  Once the status of a submission has left 'pending' it
\* never changes again, and no later step changes the stored row of the submission
\* except the first decision's own write of its message reference.
C1_FirstDecisionWins ==
    [][ \A c \in DOMAIN confessions :
          Decided(c) =>
            /\ confessions'[c].status = confessions[c].status
            /\ confessions'[c].rejection_reason = confessions[c].rejection_reason
            /\ confessions[c].message_id # NULL =>
                 confessions'[c].message_id = confessions[c].message_id ]_vars

\* C2: for every submission at most one post is emitted to the channel and at most
\* one decision notification is sent to the author.
C2_OnePostOneNotification ==
    \A c \in ConfIds : posts[c] <= 1 /\ notes[c] <= 1

\* the submissions of author u that were published to the channel
PublishedOf(u) == { c \in DOMAIN confessions : confessions[c].user_id = u /\ posts[c] >= 1 }

\* C3: when no decision handler is running, the ledger of every author holds the
\* published delta exactly once for each of the author's submissions that was
\* published to the channel (in SpecDecide nothing else touches the ledger).
C3_CreditedExactlyOnce ==
    Quiescent =>
        \A u \in Users :
            user_points[u] = POINTS_PER_CONFESSION * Cardinality(PublishedOf(u))

\* C4: when no decision handler is running, a submission carries a public message
\* reference if and only if its status is 'approved' and a publish call for it
\* reported success.
C4_MessageRefIffPublished ==
    Quiescent =>
        \A c \in DOMAIN confessions :
            (confessions[c].message_id # NULL)
                <=> (confessions[c].status = "approved" /\ posts[c] >= 1)

\* the step in which bot.send_message to the channel raises in handler t
PublishFails(t) ==
    /\ t \in tasks /\ t.kind = "approve" /\ t.pc = "post"
    /\ \A t2 \in tasks' : t2.id # t.id

\* C5: the step in which the channel transport fails during the publish of an
\* approve handler leaves the submission 'approved', without a public message
\* reference, and with no credit of the author for it.
C5_TransportFailureLeavesPartialState ==
    [][ \A t \in tasks :
          PublishFails(t) =>
            /\ confessions'[t.conf_id].status = "approved"
            /\ confessions'[t.conf_id].message_id = NULL
            /\ credits'[t.conf_id] = 0 ]_vars

(***************************************************************************)
(* Properties of the reactions (SpecReact).                                *)
(***************************************************************************)
\* C6: at most one reaction row exists for every (comment, user) pair, in every state
\* of every interleaving of the reaction handlers.
C6_OneReactionPerPair ==
    \A c_id \in CommentIds, uid \in Users :
        Cardinality(RowsOf(reactions, c_id, uid)) <= 1

\* Two presses were handled to their end, the second met the row of the first and
\* turned it (like, then dislike, by the same viewer on the same comment).
C6_Witness ==
    /\ Quiescent /\ presses = 2
    /\ \E r \in reactions : reactions = {r} /\ r.id = 1 /\ r.reaction_type = "dislike"
    /\ user_points = PublishedLedger

\* The sum of the deltas of the reactions stored on the comments of author a.
RECURSIVE SumDeltas(_)
SumDeltas(rs) ==
    IF rs = {}
    THEN 0
    ELSE LET r == CHOOSE x \in rs : TRUE
         IN  PointsToAdd(r.reaction_type) + SumDeltas(rs \ {r})

ReactionsOn(a) ==
    { r \in reactions : SelectCommenter(comments, r.comment_id) = a }

\* C7: after any sequence of reaction presses handled one after the other, the change of every comment author's
\* balance since the reactions began equals the sum of the deltas of the reactions
\* stored on that author's comments.
C7_LedgerMatchesStoredReactions ==
    Quiescent =>
        \A a \in Users :
            user_points[a] - PublishedLedger[a] = SumDeltas(ReactionsOn(a))

Tables == [ reactions |-> reactions, user_points |-> user_points ]

\* C8: toggle-off round trip.  From every reachable state of the tables, for a viewer
\* without a reaction on a comment, the handler run twice in succession with the same
\* kind gives back the reaction rows and the ledger it started from.
C8_ToggleOffRoundTrip ==
    \A uid \in Users, kind \in { "like", "dislike" }, c_id \in CommentIds :
        RowsOf(reactions, c_id, uid) = {} =>
            LET once == ReactRun(Tables, comments, presses + 1, uid, kind, c_id)
                twice == ReactRun(once, comments, presses + 2, uid, kind, c_id)
            IN  twice = Tables

\* Two presses were handled one after the other, and the second took back the row
\* and the delta of the first.
C8_Witness ==
    /\ Quiescent /\ presses = 2
    /\ reactions = {}
    /\ user_points = PublishedLedger

(***************************************************************************)
(* Properties of the submission flow (SpecFlow).                           *)
(***************************************************************************)
Selection(u) == DataGet(fsm[u].data, "chosen_cats", << >>)
SelectionSet(u) == { Selection(u)[i] : i \in 1..Len(Selection(u)) }

\* C9: the selection of an author never holds more than 3 categories; a toggle of a
\* label not chosen while 3 are chosen changes nothing; a toggle of a chosen label
\* removes it and keeps the others; a toggle of a new label below the limit adds it.
C9_SelectionLimit ==
    [][ \A u \in Users :
          /\ Len(Selection(u)) <= 3
          /\ Len(Selection(u)') <= 3
          /\ \A cat \in Cats :
               process_category_toggle(u, cat) =>
                 IF cat \in SelectionSet(u)
                 THEN SelectionSet(u)' = SelectionSet(u) \ {cat}
                 ELSE IF Len(Selection(u)) = 3
                      THEN fsm' = fsm
                      ELSE SelectionSet(u)' = SelectionSet(u) \cup {cat} ]_vars

\* An author has three categories chosen while still selecting.
C9_Witness ==
    \E u \in Users :
        fsm[u].state = "selecting_categories" /\ Len(Selection(u)) = 3

\* C10: a confession row appears only in a step taken by an author in
\* waiting_for_text, one row at a time, with status 'pending' and the author's 1 to 3
\* chosen categories, and that step leaves the author idle with no selection; an
\* author enters waiting_for_text only from selecting_categories with at least one
\* category chosen, and holds 1 to 3 categories while there.
C10_PersistOnlyFromAwaitingText ==
    [][ /\ \A u \in Users :
             fsm[u].state = "waiting_for_text" => Len(Selection(u)) \in 1..3
        /\ \A u \in Users :
             (fsm'[u].state = "waiting_for_text" /\ fsm[u].state # "waiting_for_text")
               => /\ fsm[u].state = "selecting_categories"
                  /\ Len(Selection(u)) >= 1
                  /\ Selection(u)' = Selection(u)
        /\ confessions' # confessions =>
             /\ Len(confessions') = Len(confessions) + 1
             /\ SubSeq(confessions', 1, Len(confessions)) = confessions
             /\ LET row == confessions'[Len(confessions')]
                    u == row.user_id
                IN  /\ fsm[u].state = "waiting_for_text"
                    /\ row.status = "pending"
                    /\ row.message_id = NULL
                    /\ row.categories = Selection(u)
                    /\ Len(row.categories) \in 1..3
                    /\ fsm'[u] = FsmIdle ]_vars

\* A confession has been persisted and its author is idle again.
C10_Witness ==
    \E c \in DOMAIN confessions :
        /\ confessions[c].status = "pending"
        /\ Len(confessions[c].categories) \in 1..3
        /\ fsm[confessions[c].user_id] = FsmIdle

\* the texts of the samples that are shorter than 10 characters or hold a banned word
InvalidTexts == { NoText, TextShort, TextBanned, TextCancel }

\* C11: a text shorter than 10 characters or holding a banned word (in any letter
\* case) submitted by an author in waiting_for_text persists no submission and leaves
\* the author in waiting_for_text with the chosen categories as they were; a text of
\* 10 characters without a banned word submitted from there, also after a refusal,
\* is persisted with those same categories.
C11_InvalidTextKeepsFlow ==
    [][ \A u \in Users :
          /\ \A text \in InvalidTexts :
                handle_confession_submission(u, text, TRUE, TRUE) =>
                  /\ confessions' = confessions
                  /\ fsm'[u].state = "waiting_for_text"
                  /\ Selection(u)' = Selection(u)
          /\ \A answered \in BOOLEAN, delivered \in BOOLEAN :
                handle_confession_submission(u, TextTen, answered, delivered) =>
                  /\ Len(confessions') = Len(confessions) + 1
                  /\ confessions'[Len(confessions')].text = TextTen
                  /\ confessions'[Len(confessions')].categories = Selection(u) ]_vars

\* A text was refused and the text that followed was persisted with the categories
\* the author had chosen.
C11_Witness ==
    /\ refusals >= 1
    /\ \E c \in DOMAIN confessions :
         /\ confessions[c].text = TextTen
         /\ Len(confessions[c].categories) >= 1

(***************************************************************************)
(* Properties of /cancel (SpecTalk).                                       *)
(***************************************************************************)
\* the flow states an author can be in
FlowStates == { "selecting_categories", "waiting_for_text", "waiting_for_reply" }

\* the message /cancel of u, handled by the handler the dispatcher gives it to
CancelMessage(u) ==
    \/ cmd_cancel(u)
    \/ handle_confession_submission(u, TextCancel, TRUE, TRUE)
    \/ process_reply(u, TextCancel)

\* C12: /cancel sent by an author in any flow state (selecting_categories,
\* waiting_for_text, waiting_for_reply) leaves the author idle with no selection and
\* persists neither a submission nor a comment.
C12_CancelReturnsToIdle ==
    [][ \A u \in Users :
          (fsm[u].state \in FlowStates /\ CancelMessage(u)) =>
            /\ fsm'[u] = FsmIdle
            /\ confessions' = confessions
            /\ comments' = comments ]_vars

(***************************************************************************)
(* Properties of the moderation notification (SpecNotify).                 *)
(***************************************************************************)
\* the members of the moderator list
Moderators == { ADMIN_IDS[i] : i \in 1..Len(ADMIN_IDS) }

\* the step persists a submission
Persisted == Len(confessions') = Len(confessions) + 1

\* C13: the step that persists a submission as pending attempts a moderation
\* notification to every member of the moderator list.
C13_EveryModeratorNotified ==
    [][ Persisted =>
          /\ confessions'[Len(confessions')].status = "pending"
          /\ \A mod \in Moderators : mod \in attempts'[Len(confessions')] ]_vars

\* C14: the author of a submission is told that it was sent to the moderation team
\* only if a moderator delivery succeeded (in the persisting step the admin's message
\* shows its keyboard exactly when the one delivery the handler makes went through).
C14_ToldOnlyWhenDelivered ==
    [][ Persisted =>
          (told'[Len(confessions')] => admin_kb'[Len(confessions')]) ]_vars

(***************************************************************************)
(* Properties of the rejection reason (SpecDecide).                        *)
(***************************************************************************)
\* C15: every step leaves every rejected submission with a non-empty rejection
\* reason, and a follow-up message without text in waiting_for_rejection_reason
\* leaves the status of every submission as it was.
C15_RejectedHasReason ==
    [][ /\ \A c \in DOMAIN confessions' :
             confessions'[c].status = "rejected" =>
               confessions'[c].rejection_reason # NoText
        /\ \A caller \in Users, answered \in BOOLEAN :
             process_rejection(caller, NoText, answered) =>
               \A c \in DOMAIN confessions :
                   confessions'[c].status = confessions[c].status ]_vars

(***************************************************************************)
(* Properties of the authorization (SpecModerate).                         *)
(***************************************************************************)
\* what is stored: submissions, comments, ledger, block status and moderator list
Stored == << confessions, comments, user_points, user_status, ADMIN_IDS,
             authorized_admins >>

\* a moderation action invoked by caller
ModerationBy(caller) ==
    \/ \E target_id \in Targets : cmd_warn(caller, target_id)
    \/ \E target_id \in Targets, days \in DaysArgs : cmd_block(caller, target_id, days)
    \/ \E target_id \in Targets : cmd_pblock(caller, target_id)
    \/ \E target_id \in Targets : cmd_unblock(caller, target_id)
    \/ \E conf_id \in ConfIds : approve_submission(caller, conf_id)
    \/ \E conf_id \in ConfIds : reject_submission(caller, conf_id)
    \/ \E text \in ReasonTexts, answered \in BOOLEAN :
           process_rejection(caller, text, answered)
    \/ \E c_id \in 1..comments_id_seq : admin_delete_comment(caller, c_id)
    \/ cmd_notify(caller)

\* a change of the moderator list invoked by caller
ListChangeBy(caller) ==
    \/ \E new_admin_id \in Targets : cmd_add_admin(caller, new_admin_id)
    \/ \E target_id \in Targets : cmd_remove_admin(caller, target_id)

C17_EveryModeratorDecides ==
    [][ \A caller \in Moderators :
          /\ \A conf_id \in DOMAIN confessions :
                (confessions[conf_id].status = "pending"
                   /\ approve_submission(caller, conf_id))
                  => confessions'[conf_id].status = "approved"
          /\ \A conf_id \in DOMAIN confessions :
                (confessions[conf_id].status = "pending"
                   /\ reject_submission(caller, conf_id))
                  => fsm'[caller].state = "waiting_for_rejection_reason"
          /\ \A c_id \in 1..comments_id_seq :
                admin_delete_comment(caller, c_id)
                  => \A c \in comments' : c.id # c_id ]_vars

(***************************************************************************)
(* Properties of the comment pages (SpecList).                             *)
(***************************************************************************)
\* the pages a viewer may ask for
Pages == 1..(LargestTotal \div PAGE_SIZE + 2)

\* C18: for every viewer, submission id and page, a call made now delivers comments
\* (or the notice that there are none yet) only if the submission exists and is
\* approved, and otherwise delivers the notice that it is not available and no
\* comment.
C18_OnlyApprovedListed ==
    \A u \in Users, conf_id \in ViewIds, page \in Pages :
        LET out == ShowComments(u, conf_id, page)
        IN  IF conf_id \in DOMAIN confessions /\ confessions[conf_id].status = "approved"
            THEN out.kind \in { "page", "empty" }
            ELSE out.kind = "unavailable" /\ "items" \notin DOMAIN out

\* A viewer asked for the comments of a rejected submission that has comments and
\* was shown the notice.
C18_Witness ==
    /\ shown.kind = "unavailable"
    /\ shown.confession_id \in DOMAIN confessions
    /\ confessions[shown.confession_id].status = "rejected"
    /\ CommentsOf(comments, shown.confession_id) # {}

\* the comment a rendered item stands for: the one its Reply button names
CommentOfItem(item) == CHOOSE c \in comments : << "com", "reply", c.id >> \in item.kb

\* the 1-based position of comment c in the creation order of its submission
Ordinal(c) ==
    Cardinality({ d \in CommentsOf(comments, c.confession_id) : d.id <= c.id })

\* page clamped into [1, page_count], page_count = max(1, ceil(total / PAGE_SIZE))
Clamped(page, total) ==
    LET page_count == IF total = 0 THEN 1 ELSE (total + PAGE_SIZE - 1) \div PAGE_SIZE
    IN  IF page < 1 THEN 1 ELSE IF page > page_count THEN page_count ELSE page

\* C19: a call that finds the submission available delivers exactly the comments of
\* the requested page clamped into [1, page_count], in creation order, each numbered
\* by its ordinal in the whole sequence.
C19_PageClamped ==
    [][ (shown' # shown /\ shown'.kind \in { "page", "empty" }) =>
          LET total == Cardinality(CommentsOf(comments, shown'.confession_id))
              first == (Clamped(shown'.page, total) - 1) * PAGE_SIZE
              count == IF total - first < PAGE_SIZE THEN total - first ELSE PAGE_SIZE
          IN  IF count = 0
              THEN shown'.kind = "empty"
              ELSE /\ shown'.kind = "page"
                   /\ Len(shown'.items) = count
                   /\ \A j \in 1..Len(shown'.items) :
                        /\ shown'.items[j].seq = first + j
                        /\ Ordinal(CommentOfItem(shown'.items[j])) = first + j ]_vars

\* the "replying to comment #N" annotation of a rendered item, NULL without one
ThreadContext(item) ==
    IF "replying_to" \in DOMAIN item THEN item.replying_to ELSE NULL

\* C20: every delivered comment that is a reply to a comment still stored carries
\* the ordinal of its parent in the whole creation-ordered sequence, whether or not
\* the parent is on the page.
C20_ReplyCarriesParentOrdinal ==
    [][ (shown' # shown /\ shown'.kind = "page") =>
          \A j \in 1..Len(shown'.items) :
              LET c == CommentOfItem(shown'.items[j])
              IN  \A parent \in comments :
                      parent.id = c.parent_comment_id =>
                          ThreadContext(shown'.items[j]) = Ordinal(parent) ]_vars

(***************************************************************************)
(* Properties of replies and deletions (SpecThread).                       *)
(***************************************************************************)
\* C21: every comment a step inserts belongs to a stored submission, and if it has a
\* parent reference, the parent is stored at that moment and belongs to the same
\* submission; so a reply to a comment that is not stored inserts nothing.
C21_ReplyNeedsParent ==
    [][ \A c \in comments' \ comments :
          /\ c.confession_id \in DOMAIN confessions
          /\ c.parent_comment_id # NULL =>
                \E parent \in comments :
                    /\ parent.id = c.parent_comment_id
                    /\ parent.confession_id = c.confession_id ]_vars

\* the comment with id c_id is removed by this step
Deletes(c_id) ==
    /\ \E c \in comments : c.id = c_id
    /\ \A c \in comments' : c.id # c_id

\* C22: a step that deletes a comment removes that comment only; every reply to it
\* stays stored with its text, submission and parent reference as they were.
C22_DeleteKeepsReplies ==
    [][ \A c_id \in 1..comments_id_seq :
          Deletes(c_id) =>
            /\ comments' = { c \in comments : c.id # c_id }
            /\ \A reply \in comments :
                  reply.parent_comment_id = c_id => reply \in comments' ]_vars

\* A reply written while its parent was stored is still stored after the admin
\* deleted the parent.
C22_Witness ==
    \E reply \in comments :
        /\ reply.parent_comment_id # NULL
        /\ reply.confession_id # NULL
        /\ \A c \in comments : c.id # reply.parent_comment_id

(***************************************************************************)
(* Properties of the access gate (SpecGate).                               *)
(***************************************************************************)
\* the block status of u is active: is_blocked with blocked_until unset or in the future
ActiveBlock(u) ==
    /\ u \in DOMAIN user_status
    /\ user_status[u].is_blocked
    /\ (user_status[u].blocked_until = NULL \/ user_status[u].blocked_until > clock)

\* C23: while the block of a user is active no step starts or advances a flow of
\* that user, stores a confession, a comment or a reply of that user, or starts a
\* reaction of that user; a block that has run out can be cleared by the gate, and
\* the clearing step leaves the user without block.
C23_BlockedUserReachesNoHandler ==
    [][ \A u \in Users :
          /\ ActiveBlock(u) =>
                /\ fsm'[u] = fsm[u]
                /\ \A i \in DOMAIN confessions' \ DOMAIN confessions :
                      confessions'[i].user_id # u
                /\ \A c \in comments' \ comments : c.user_id # u
                /\ \A t \in tasks' \ tasks : t.pc = "commenter" => t.uid # u
          /\ (BlockExpired(u) /\ ~ActiveBlock(u)) => ENABLED gate_clear(u)
          /\ gate_clear(u) => Reaches(u)' ]_vars

\* A user blocked in the middle of a submission, some days into the block.
C23_Witness ==
    \E u \in Users :
        /\ ActiveBlock(u)
        /\ fsm[u].state = "waiting_for_text"
        /\ user_status[u].blocked_until # NULL
        /\ clock > 0

\* C24: a delivered comment carries the commenter's user id when the viewer is a
\* moderator and never when the viewer is not; and to a viewer who is no moderator
\* the rendering of a comment is the same for any two commenters that have the same
\* relationship tag and the same balance.
C24_CommenterIdForModeratorsOnly ==
    [][ /\ (shown' # shown /\ shown'.kind = "page") =>
              \A j \in 1..Len(shown'.items) :
                  LET item == shown'.items[j]
                  IN  IF shown'.user_id \in Moderators
                      THEN item.admin_info = CommentOfItem(item).user_id
                      ELSE item.admin_info = NULL
        /\ \A c \in comments, viewer \in Users \ Moderators, u1 \in Users, u2 \in Users :
              LET owner_id == confessions[c.confession_id].user_id
                  c1 == [ c EXCEPT !.user_id = u1 ]
                  c2 == [ c EXCEPT !.user_id = u2 ]
              IN  (/\ CommentTag(u1, owner_id, viewer) = CommentTag(u2, owner_id, viewer)
                   /\ Pts(user_points, u1) = Pts(user_points, u2))
                  => RenderComment(c1, 0, 0, viewer, owner_id)
                       = RenderComment(c2, 0, 0, viewer, owner_id) ]_vars

(***************************************************************************)
(* Properties of the moderator list (SpecRestart).                         *)
(***************************************************************************)
\* C25: an id the primary adds is in the durable table and in the in-memory list
\* after the step; an id in the table stays in the table and in the in-memory list
\* over every step, restarts included, that is not its removal by the primary.
C25_AddedModeratorSurvivesRestart ==
    [][ \A x \in Users :
          /\ cmd_add_admin(PRIMARY_ADMIN, x) =>
                x \in authorized_admins' /\ ListHas(ADMIN_IDS', x)
          /\ (x \in authorized_admins /\ ~cmd_remove_admin(PRIMARY_ADMIN, x)) =>
                x \in authorized_admins' /\ ListHas(ADMIN_IDS', x) ]_vars

\* An added moderator is in the list after a restart that cleared the flows: the
\* /confess counter shows a flow was started, and nobody is in a flow.
C25_Witness ==
    /\ \E x \in Users \ { PRIMARY_ADMIN } : x \in authorized_admins /\ ListHas(ADMIN_IDS, x)
    /\ starts > 0
    /\ \A u \in Users : fsm[u] = FsmIdle

(***************************************************************************)
(* Properties of interleaved handlers (SpecReact, SpecRace).               *)
(***************************************************************************)
\* C26: in every reachable state of the interleaved reaction handlers, the states
\* between two statements of a handler included, the change of every comment
\* author's balance since the reactions began equals the sum of the deltas of the
\* reactions stored on that author's comments: no stored reaction is left out or
\* counted twice, and no update is lost.
C26_LedgerMatchesInEveryState ==
    \A a \in Users :
        user_points[a] - PublishedLedger[a] = SumDeltas(ReactionsOn(a))
\* handler t has written part of what it writes
PartlyApplied(t) ==
    \/ /\ t.kind = "approve"
       /\ confessions[t.conf_id].status = "approved"
       /\ confessions[t.conf_id].message_id = NULL \/ credits[t.conf_id] = 0
    \/ t.kind = "react" /\ t.pc = "points"
    \/ t.kind = "delete" /\ t.pc = "penalty"

\* C27: a database call that fails inside approve, react or the comment deletion
\* ends the handler with the stored state entirely as before the operation or
\* entirely as after it: never a status change without message reference and
\* credit, a reaction row change without its ledger delta, or a deletion without
\* its penalty.
C27_StorageFailureLeavesNoPartialState ==
    [][ \A t \in tasks : storage_fails(t) => ~PartlyApplied(t) ]_vars

\* the comments of the published confession that are no longer stored
DeletedComments == { i \in CommentIds : \A c \in comments : c.id # i }

\* C28: when no deletion is under way, every comment author's balance is lower than
\* at the start by the deletion penalty once for each deleted comment of that author,
\* however the presses on a comment were repeated or interleaved.
C28_PenaltyExactlyOncePerDeletion ==
    Quiescent =>
        \A a \in Users :
            PublishedLedger[a] - user_points[a] =
                DELETE_PENALTY * Cardinality({ i \in DeletedComments : CommentAuthor(i) = a })

(***************************************************************************)
(* Properties of the ledger (SpecLedger).                                  *)
(***************************************************************************)
\* the balance of u: 0 before the first delta
Balance(points, u) == IF u \in DOMAIN points THEN points[u] ELSE 0

\* C29: every named delta moves the balance of the user it is directed at by exactly
\* that delta, counted from 0 for a user without ledger entry: the publication
\* credit (+1), a like (+3), a dislike (-3), a warning (-50), a comment deletion (-20).
C29_DeltaNeverDropped ==
    [][ /\ \A t \in TasksOf("approve") :
              (t.pc = "credit" /\ credits'[t.conf_id] = credits[t.conf_id] + 1) =>
                  Balance(user_points', t.user_id)
                      = Balance(user_points, t.user_id) + POINTS_PER_CONFESSION
        /\ \A t \in TasksOf("react") :
              (t.pc = "points" /\ t \notin tasks' /\ t.commenter_id # NULL) =>
                  Balance(user_points', t.commenter_id)
                      = Balance(user_points, t.commenter_id)
                          + (IF t.existing = t.r_type THEN 0 - PointsToAdd(t.r_type)
                                                      ELSE PointsToAdd(t.r_type))
        /\ \A c \in comments :
              Deletes(c.id) =>
                  Balance(user_points', c.user_id)
                      = Balance(user_points, c.user_id) - DELETE_PENALTY
        /\ \A target_id \in Users :
              cmd_warn(ADMIN_ID, target_id) =>
                  Balance(user_points', target_id)
                      = Balance(user_points, target_id) - WARN_PENALTY ]_vars

\* the handler t ends at its statement on table reactions: the statement raised
RaisedAtWrite(t) ==
    /\ t \in TasksOf("react") /\ t.pc = "write"
    /\ \A t2 \in tasks' : t2.id # t.id

\* C30: a reaction on a comment that is not stored stores no reaction row, changes
\* no balance and ends without raising; a decision on a submission id that is not
\* stored starts no publication, changes no table and emits no post.
C30_StaleButtonIsNoOp ==
    [][ /\ \A t \in TasksOf("react") :
              (\A c \in comments : c.id # t.c_id) =>
                  /\ t.pc \in { "write", "points" } =>
                        reactions' = reactions /\ user_points' = user_points
                  /\ ~RaisedAtWrite(t)
        /\ \A conf_id \in ConfIds \ DOMAIN confessions :
              /\ posts'[conf_id] = posts[conf_id]
              /\ \A t \in tasks' \ tasks : t.kind = "approve" => t.conf_id # conf_id
              /\ approve_submission(ADMIN_ID, conf_id) =>
                    confessions' = confessions /\ user_points' = user_points ]_vars

(***************************************************************************)
(* Broadcast: /notify and the delivery loop.                               *)
(***************************************************************************)
\* what each recipient's delivery may do in one broadcast
Deliveries == [ Users -> DeliveryOutcomes ]

\* Broadcast: the tables of the ledger runs; moderators send /notify and then the
\* message to copy (or /cancel), the creator adds moderators, users send /start.
NextBroadcast ==
    \/ \E u \in Users : cmd_start(u)
    \/ \E new_admin_id \in Users \ { PRIMARY_ADMIN } :
           cmd_add_admin(PRIMARY_ADMIN, new_admin_id)
    \/ \E caller \in Users : cmd_notify(caller)
    \/ \E u \in Users, text \in BroadcastTexts, outcome \in Deliveries :
           process_broadcast(u, text, outcome)

SpecBroadcast == InitLedger /\ [][NextBroadcast]_vars

\* C31: a broadcast over the N recipients runs to completion whatever the deliveries
\* do: every one of the N recipients is attempted, no recipient gets more than two
\* copy_to calls, and the handler ends with the report, in which
\* success + failed = N.
C31_BroadcastRunsToCompletion ==
    [][ broadcast' # broadcast =>
            /\ broadcast'.kind = "report"
            /\ broadcast'.n = Cardinality(BroadcastRecipients)
            /\ DOMAIN broadcast'.tries = BroadcastRecipients
            /\ \A uid \in DOMAIN broadcast'.tries : broadcast'.tries[uid] \in 1..2
            /\ broadcast'.success + broadcast'.failed = broadcast'.n ]_vars

=============================================================================
